---- MODULE Spec2Model ----
(***************************************************************************)
(* Model of the voice-activity smoothing pipeline of                       *)
(* src/api/app/handy_preprocessing.py: SileroVAD (the classifier's         *)
(* threshold test), SmoothedVAD (onset / hangover state machine with a     *)
(* pre-roll ring buffer) and the framing loop and segment accumulator of   *)
(* HandyPreprocessor.process.                                              *)
(*                                                                         *)
(* Representation.                                                         *)
(*  - A probability is an integer number of hundredths (0.3 is 30).        *)
(*  - A frame is [idx, len]: its 0-based position in the stream and its    *)
(*    number of samples; an array of samples is the sequence of the        *)
(*    frames it was concatenated from.                                     *)
(*  - Python's None is the empty tuple <<>>, a present value x is <<x>>.   *)
(*  - A time is the exact fraction [num, den] that the code's division     *)
(*    computes; times are compared by cross-multiplication.                *)
(***************************************************************************)
EXTENDS Integers, Sequences, FiniteSets, TLC

(* ---------------------------- bounds ------------------------------------ *)
MaxFrames   == 8      \* longest clip, in frames
MaxOnset    == 2      \* largest onset_frames tried
MaxHangover == 2      \* largest hangover_frames tried
MaxPrefill  == 2      \* largest prefill_frames tried
MaxCalls    == 5      \* calls made on a SmoothedVAD object in SpecVAD
MaxRunFrames == 2     \* longest clip of a concurrent run, in frames

(* ------------------------- program constants ---------------------------- *)
target_sr         == 16000
frame_duration_ms == 30
frame_samples     == (target_sr * frame_duration_ms) \div 1000
vad_threshold     == 30
onset_frames      == 2
prefill_frames    == 15
hangover_frames   == 15

(* classifier outputs tried for a frame: below, equal to and above 0.3 *)
Probs == {10, 30, 90}

(* lengths of the clips tried, in samples: whole frames, and one sample short *)
AudioLens == {0} \cup {f * frame_samples - r : f \in 1..MaxFrames, r \in {0, 1}}

(* lengths of clips of about one second and more, tried with VAD disabled *)
LongAudioLens ==
    {target_sr - 1, target_sr, target_sr + 1, (target_sr * 5) \div 4, 2 * target_sr}

(* lengths of the frames a caller of SmoothedVAD.process_frame may pass *)
FrameLens == {frame_samples, frame_samples \div 2}

VARIABLES
    silero_vad,       \* SileroVAD: [threshold]
    smoothed_vad,     \* SmoothedVAD: configuration, ring buffer, counters, in_speech
    vad_enabled,      \* argument of process
    audio_len,        \* len(audio) after resampling
    i,                \* loop variable of process: offset of the next frame
    segment_start,    \* None or the start time of the open segment
    processed_audio,  \* list of the payloads appended so far
    vad_segments,     \* list of the closed segments
    output,           \* None, or the audio process hands to the later stages
    pc,               \* "loop", "done", "error" in process; "api" for a bare SmoothedVAD
    result,           \* outcome of the last process_frame call
    n_calls,          \* process_frame calls since construction or reset()
    trace,            \* history: one record per process_frame call
    last_p,           \* history: None, or the classifier's answer in the last call
    max_p,            \* history: None, or the largest classifier answer so far
    runs,             \* concurrent process calls on the shared preprocessor, by run
    spectrum,         \* None, or the state of a _generate_spectrum call
    active_jobs,      \* backend: the ProcessingJob of every job id
    webhook,          \* backend: None, or the secret configured and the last response
    poll,             \* backend: None, or the state of a wait_for_completion call
    stream            \* api: None, or the state of a job_events generator

vars == <<silero_vad, smoothed_vad, vad_enabled, audio_len, i, segment_start,
          processed_audio, vad_segments, output, pc, result, n_calls, trace,
          last_p, max_p, runs, spectrum,
          active_jobs, webhook, poll, stream>>

(* ------------------------------ helpers --------------------------------- *)
None == <<>>
Some(x) == <<x>>

(* no part of the backend or of the event stream is running *)
BackendIdle == active_jobs = <<>> /\ webhook = None /\ poll = None /\ stream = None

Min(a, b) == IF a < b THEN a ELSE b

Rat(n, d) == [num |-> n, den |-> d]
RatEq(a, b) == a.num * b.den = b.num * a.den
RatLess(a, b) == a.num * b.den < b.num * a.den
RatLeq(a, b) == a.num * b.den <= b.num * a.den

RECURSIVE ArrayLen(_)
(* len() of a numpy array given as the sequence of frames it consists of *)
ArrayLen(arr) == IF arr = <<>> THEN 0 ELSE Head(arr).len + ArrayLen(Tail(arr))

RECURSIVE Concatenate(_)
(* np.concatenate(list of arrays) *)
Concatenate(arrs) == IF arrs = <<>> THEN <<>> ELSE Head(arrs) \o Concatenate(Tail(arrs))

(* ------------------------------ SileroVAD ------------------------------- *)
(* variant: only a frame that is too long is refused *)
DetectRaisesTooLongOnly(frame) == frame.len > frame_samples

(* detect() raises ValueError unless the frame has frame_samples samples *)
DetectRaises(frame) == frame.len # frame_samples

(* variant: the comparison is >= *)
IsSpeechNotStrict(vad, p) == p >= vad.threshold

(* is_speech(): strict comparison of the classifier output p with the threshold *)
IsSpeech(vad, p) == p > vad.threshold

(* ------------------------------ SmoothedVAD ----------------------------- *)
NewSmoothedVAD(prefill, hangover, onset) ==
    [prefill_frames   |-> prefill,
     hangover_frames  |-> hangover,
     onset_frames     |-> onset,
     frame_buffer     |-> <<>>,
     hangover_counter |-> 0,
     onset_counter    |-> 0,
     in_speech        |-> FALSE]

(* variant: reset() leaves the ring buffer as it is *)
ResetVADKeepsBuffer(sv) ==
    [sv EXCEPT !.hangover_counter = 0, !.onset_counter = 0, !.in_speech = FALSE]

(* reset() *)
ResetVAD(sv) ==
    [sv EXCEPT !.frame_buffer = <<>>, !.hangover_counter = 0,
               !.onset_counter = 0, !.in_speech = FALSE]

(* variant: a deque one entry short, maxlen = prefill_frames *)
BufferMaxlenOffByOne(sv) == sv.prefill_frames

(* deque(maxlen = prefill_frames + 1) *)
BufferMaxlen(sv) == sv.prefill_frames + 1

(* deque.append on a bounded deque: the oldest entry falls out when full *)
BufferAppend(sv, frame) ==
    LET buf == sv.frame_buffer
        maxlen == BufferMaxlen(sv)
    IN  IF maxlen = 0 THEN <<>>
        ELSE IF Len(buf) >= maxlen THEN Append(Tail(buf), frame)
        ELSE Append(buf, frame)

Outcome(sv, raised, is_speech, speech_data) ==
    [vad |-> sv, raised |-> raised, is_speech |-> is_speech, speech_data |-> speech_data]

(* variant: the confirmed onset leaves hangover_counter as it was *)
OnsetBranchNoHangover(sv, frame) ==
    LET counted == [sv EXCEPT !.onset_counter = sv.onset_counter + 1]
    IN  IF counted.onset_counter >= counted.onset_frames
        THEN Outcome([counted EXCEPT !.in_speech = TRUE, !.onset_counter = 0],
                     FALSE, TRUE, Some(counted.frame_buffer))
        ELSE Outcome(counted, FALSE, FALSE, None)

(* variant: the confirmed onset returns the current frame without the pre-roll *)
OnsetBranchCurrentOnly(sv, frame) ==
    LET counted == [sv EXCEPT !.onset_counter = sv.onset_counter + 1]
    IN  IF counted.onset_counter >= counted.onset_frames
        THEN Outcome([counted EXCEPT !.in_speech = TRUE,
                                     !.hangover_counter = counted.hangover_frames,
                                     !.onset_counter = 0],
                     FALSE, TRUE, Some(<<frame>>))
        ELSE Outcome(counted, FALSE, FALSE, None)

(* variant: the onset is confirmed one voiced frame early *)
OnsetBranchEarly(sv, frame) ==
    LET counted == [sv EXCEPT !.onset_counter = sv.onset_counter + 1]
    IN  IF counted.onset_counter >= counted.onset_frames - 1
        THEN Outcome([counted EXCEPT !.in_speech = TRUE,
                                     !.hangover_counter = counted.hangover_frames,
                                     !.onset_counter = 0],
                     FALSE, TRUE, Some(counted.frame_buffer))
        ELSE Outcome(counted, FALSE, FALSE, None)

(* variant: the confirmed onset does not reset onset_counter *)
OnsetBranchKeepsCounter(sv, frame) ==
    LET counted == [sv EXCEPT !.onset_counter = sv.onset_counter + 1]
    IN  IF counted.onset_counter >= counted.onset_frames
        THEN Outcome([counted EXCEPT !.in_speech = TRUE,
                                     !.hangover_counter = counted.hangover_frames],
                     FALSE, TRUE, Some(counted.frame_buffer))
        ELSE Outcome(counted, FALSE, FALSE, None)

(* not in_speech and is_voice *)
OnsetBranch(sv, frame) ==
    LET counted == [sv EXCEPT !.onset_counter = sv.onset_counter + 1]
    IN  IF counted.onset_counter >= counted.onset_frames
        THEN Outcome([counted EXCEPT !.in_speech = TRUE,
                                     !.hangover_counter = counted.hangover_frames,
                                     !.onset_counter = 0],
                     FALSE, TRUE, Some(counted.frame_buffer))
        ELSE Outcome(counted, FALSE, FALSE, None)

(* variant: a voiced frame in speech does not refresh hangover_counter *)
ContinueBranchNoRefresh(sv, frame) ==
    Outcome(sv, FALSE, TRUE, Some(<<frame>>))

(* in_speech and is_voice *)
ContinueBranch(sv, frame) ==
    Outcome([sv EXCEPT !.hangover_counter = sv.hangover_frames],
            FALSE, TRUE, Some(<<frame>>))

(* variant: the hangover test is >= 0 instead of > 0 *)
HangoverBranchOffByOne(sv, frame) ==
    IF sv.hangover_counter >= 0
    THEN Outcome([sv EXCEPT !.hangover_counter = sv.hangover_counter - 1],
                 FALSE, TRUE, Some(<<frame>>))
    ELSE Outcome([sv EXCEPT !.in_speech = FALSE], FALSE, FALSE, None)

(* variant: the region ends one unvoiced frame early, the test is > 1 *)
HangoverBranchEndsEarly(sv, frame) ==
    IF sv.hangover_counter > 1
    THEN Outcome([sv EXCEPT !.hangover_counter = sv.hangover_counter - 1],
                 FALSE, TRUE, Some(<<frame>>))
    ELSE Outcome([sv EXCEPT !.in_speech = FALSE], FALSE, FALSE, None)

(* in_speech and not is_voice *)
HangoverBranch(sv, frame) ==
    IF sv.hangover_counter > 0
    THEN Outcome([sv EXCEPT !.hangover_counter = sv.hangover_counter - 1],
                 FALSE, TRUE, Some(<<frame>>))
    ELSE Outcome([sv EXCEPT !.in_speech = FALSE], FALSE, FALSE, None)

(* variant: an unvoiced frame outside speech keeps onset_counter *)
SilenceBranchKeepsCounter(sv, frame) ==
    Outcome(sv, FALSE, FALSE, None)

(* not in_speech and not is_voice *)
SilenceBranch(sv, frame) ==
    Outcome([sv EXCEPT !.onset_counter = 0], FALSE, FALSE, None)

(* process_frame(frame), the classifier answering p for the frame *)
ProcessFrame(sv, silero, frame, p) ==
    LET buffered == [sv EXCEPT !.frame_buffer = BufferAppend(sv, frame)]
    IN  IF DetectRaises(frame) THEN Outcome(buffered, TRUE, FALSE, None)
        ELSE LET is_voice == IsSpeech(silero, p)
             IN  IF ~buffered.in_speech /\ is_voice THEN OnsetBranch(buffered, frame)
                 ELSE IF buffered.in_speech /\ is_voice THEN ContinueBranch(buffered, frame)
                 ELSE IF buffered.in_speech /\ ~is_voice THEN HangoverBranch(buffered, frame)
                 ELSE SilenceBranch(buffered, frame)

(* ------------------------ HandyPreprocessor.process --------------------- *)
(* frame = audio[i:i + frame_samples] *)
Slice(alen, at) == [idx |-> at \div frame_samples, len |-> Min(frame_samples, alen - at)]

(* variant: the short last frame is passed on as it is *)
PadFrameNoPadding(frame) == frame

(* np.pad(frame, (0, frame_samples - len(frame))) for a short last frame *)
PadFrame(frame) ==
    IF frame.len < frame_samples
    THEN [frame EXCEPT !.len = frame.len + (frame_samples - frame.len)]
    ELSE frame

(* the samples appended to the output so far *)
OutputCursor(pa) == ArrayLen(Concatenate(pa))

(* start time given to a segment that opens *)
SegmentStartTime(pa) == IF pa # <<>> THEN Rat(Len(pa), target_sr) ELSE Rat(0, 1)

(* end time given to a segment that closes *)
SegmentEndTime(pa) == Rat(IF pa # <<>> THEN OutputCursor(pa) ELSE 0, target_sr)

Accumulator(start, pa, segs) ==
    [segment_start |-> start, processed_audio |-> pa, vad_segments |-> segs]

(* variant: closing a segment does not clear segment_start *)
AccumulateNoClear(acc, res) ==
    IF res.is_speech /\ res.speech_data # None
    THEN Accumulator(IF acc.segment_start = None
                     THEN Some(SegmentStartTime(acc.processed_audio))
                     ELSE acc.segment_start,
                     Append(acc.processed_audio, res.speech_data[1]),
                     acc.vad_segments)
    ELSE IF acc.segment_start # None
    THEN Accumulator(acc.segment_start, acc.processed_audio,
                     Append(acc.vad_segments,
                            [start |-> acc.segment_start[1],
                             end   |-> SegmentEndTime(acc.processed_audio)]))
    ELSE acc

(* the body of the frame loop after the process_frame call *)
Accumulate(acc, res) ==
    IF res.is_speech /\ res.speech_data # None
    THEN Accumulator(IF acc.segment_start = None
                     THEN Some(SegmentStartTime(acc.processed_audio))
                     ELSE acc.segment_start,
                     Append(acc.processed_audio, res.speech_data[1]),
                     acc.vad_segments)
    ELSE IF acc.segment_start # None
    THEN Accumulator(None, acc.processed_audio,
                     Append(acc.vad_segments,
                            [start |-> acc.segment_start[1],
                             end   |-> SegmentEndTime(acc.processed_audio)]))
    ELSE acc

(* variant: the test is the truth value of segment_start, false for a start of 0 *)
CloseLastTruthy(acc) ==
    IF acc.segment_start # None /\ acc.segment_start[1].num # 0 /\ acc.processed_audio # <<>>
    THEN [acc EXCEPT !.vad_segments =
              Append(@, [start |-> acc.segment_start[1],
                         end   |-> Rat(OutputCursor(acc.processed_audio), target_sr)])]
    ELSE acc

(* closing the last segment after the loop *)
CloseLast(acc) ==
    IF acc.segment_start # None /\ acc.processed_audio # <<>>
    THEN [acc EXCEPT !.vad_segments =
              Append(@, [start |-> acc.segment_start[1],
                         end   |-> Rat(OutputCursor(acc.processed_audio), target_sr)])]
    ELSE acc

(* variant: with VAD enabled the filtered audio is handed on even when it is empty *)
SelectAudioNoFallback(enabled, pa, alen) ==
    IF enabled
    THEN [source |-> "filtered", len |-> OutputCursor(pa)]
    ELSE [source |-> "original", len |-> alen]

(* the audio handed on: the filtered audio, or the original when nothing was emitted *)
SelectAudio(enabled, pa, alen) ==
    IF enabled /\ pa # <<>>
    THEN [source |-> "filtered", len |-> OutputCursor(pa)]
    ELSE [source |-> "original", len |-> alen]

(* variant: a clip of exactly one second is padded too, the test is <= *)
PaddedLenInclusive(n) == IF n <= target_sr THEN n + ((target_sr * 125) \div 100 - n) ELSE n

(* padding of a clip shorter than one second to 1.25 seconds *)
PaddedLen(n) == IF n < target_sr THEN n + ((target_sr * 125) \div 100 - n) ELSE n

(* one history record per process_frame call; of the classifier's answer it keeps
   the voiced decision *)
TraceEntry(frame, p, before, res, after) ==
    [frame     |-> frame,
     voiced    |-> IsSpeech(silero_vad, p),
     emit      |-> res.is_speech,
     payload   |-> res.speech_data,
     in_speech |-> res.vad.in_speech,
     cursor    |-> OutputCursor(before.processed_audio),
     opened    |-> before.segment_start = None /\ after.segment_start # None,
     closed    |-> Len(after.vad_segments) > Len(before.vad_segments),
     start     |-> after.segment_start,
     nsegs     |-> Len(after.vad_segments)]

(* the largest classifier answer seen, given the largest so far *)
MaxSeen(seen, p) == IF seen = None \/ seen[1] < p THEN Some(p) ELSE seen

(* ------------------------------- actions -------------------------------- *)
Init ==
    /\ silero_vad = [threshold |-> vad_threshold]
    /\ vad_enabled \in BOOLEAN
    /\ audio_len \in AudioLens \cup LongAudioLens
    /\ vad_enabled => audio_len \in AudioLens
    /\ \E pf \in 0..MaxPrefill, hf \in 0..MaxHangover, onf \in 1..MaxOnset :
          /\ vad_enabled \/ (pf = 0 /\ hf = 0 /\ onf = 1)
          /\ smoothed_vad = NewSmoothedVAD(pf, hf, onf)
    /\ i = 0
    /\ segment_start = None
    /\ processed_audio = <<>>
    /\ vad_segments = <<>>
    /\ output = None
    /\ pc = "loop"
    /\ result = None
    /\ n_calls = 0
    /\ trace = <<>>
    /\ last_p = None
    /\ max_p = None
    /\ runs = <<>>
    /\ spectrum = None
    /\ BackendIdle

(* one iteration of the frame loop, the classifier answering p *)
Step(p) ==
    /\ pc = "loop" /\ vad_enabled /\ i < audio_len
    /\ LET frame  == PadFrame(Slice(audio_len, i))
           res    == ProcessFrame(smoothed_vad, silero_vad, frame, p)
           before == Accumulator(segment_start, processed_audio, vad_segments)
           after  == IF res.raised THEN before ELSE Accumulate(before, res)
       IN  /\ smoothed_vad' = res.vad
           /\ result' = Some([raised |-> res.raised, is_speech |-> res.is_speech,
                              speech_data |-> res.speech_data])
           /\ segment_start' = after.segment_start
           /\ processed_audio' = after.processed_audio
           /\ vad_segments' = after.vad_segments
           /\ pc' = IF res.raised THEN "error" ELSE "loop"
           /\ i' = IF res.raised THEN i ELSE i + frame_samples
           /\ n_calls' = n_calls + 1
           /\ trace' = Append(trace, TraceEntry(frame, p, before, res, after))
           /\ last_p' = IF res.raised THEN None ELSE Some(p)
           /\ max_p' = IF res.raised THEN max_p ELSE MaxSeen(max_p, p)
    /\ UNCHANGED <<silero_vad, vad_enabled, audio_len, output, runs, spectrum,
          active_jobs, webhook, poll, stream>>

(* the end of the loop: last segment, fallback to the original audio, padding *)
Finish ==
    /\ pc = "loop" /\ ~(vad_enabled /\ i < audio_len)
    /\ LET acc == IF vad_enabled
                  THEN CloseLast(Accumulator(segment_start, processed_audio, vad_segments))
                  ELSE Accumulator(segment_start, processed_audio, vad_segments)
           sel == SelectAudio(vad_enabled, processed_audio, audio_len)
       IN  /\ vad_segments' = acc.vad_segments
           /\ output' = Some([source       |-> sel.source,
                              len          |-> sel.len,
                              padded_len   |-> PaddedLen(sel.len),
                              vad_segments |-> IF vad_enabled THEN acc.vad_segments ELSE <<>>,
                              num_segments |-> IF vad_enabled THEN Len(acc.vad_segments) ELSE 0])
    /\ pc' = "done"
    /\ UNCHANGED <<silero_vad, smoothed_vad, vad_enabled, audio_len, i, segment_start,
                   processed_audio, result, n_calls, trace, last_p, max_p, runs, spectrum,
          active_jobs, webhook, poll, stream>>

Next == (\E p \in Probs : Step(p)) \/ Finish

Spec == Init /\ [][Next]_vars

(* --------------- a SmoothedVAD object driven by its caller -------------- *)
InitVAD ==
    /\ silero_vad = [threshold |-> vad_threshold]
    /\ vad_enabled = TRUE
    /\ audio_len = 0
    /\ \E pf \in 0..MaxPrefill, hf \in 0..MaxHangover, onf \in 1..MaxOnset :
          smoothed_vad = NewSmoothedVAD(pf, hf, onf)
    /\ i = 0
    /\ segment_start = None
    /\ processed_audio = <<>>
    /\ vad_segments = <<>>
    /\ output = None
    /\ pc = "api"
    /\ result = None
    /\ n_calls = 0
    /\ trace = <<>>
    /\ last_p = None
    /\ max_p = None
    /\ runs = <<>>
    /\ spectrum = None
    /\ BackendIdle

(* smoothed_vad.process_frame(frame) with a frame of flen samples; the classifier
   is not run on a frame of the wrong length, so one p stands for all there *)
CallProcessFrame(flen, p) ==
    /\ pc = "api" /\ Len(trace) < MaxCalls
    /\ flen # frame_samples => p = CHOOSE q \in Probs : TRUE
    /\ LET frame == [idx |-> Len(trace), len |-> flen]
           res   == ProcessFrame(smoothed_vad, silero_vad, frame, p)
           acc   == Accumulator(segment_start, processed_audio, vad_segments)
       IN  /\ smoothed_vad' = res.vad
           /\ result' = Some([raised |-> res.raised, is_speech |-> res.is_speech,
                              speech_data |-> res.speech_data])
           /\ trace' = Append(trace, TraceEntry(frame, p, acc, res, acc))
           /\ last_p' = IF res.raised THEN None ELSE Some(p)
           /\ max_p' = IF res.raised THEN max_p ELSE MaxSeen(max_p, p)
    /\ n_calls' = n_calls + 1
    /\ UNCHANGED <<silero_vad, vad_enabled, audio_len, i, segment_start, processed_audio,
                   vad_segments, output, pc, runs, spectrum,
          active_jobs, webhook, poll, stream>>

(* smoothed_vad.reset() *)
CallReset ==
    /\ pc = "api"
    /\ smoothed_vad' = ResetVAD(smoothed_vad)
    /\ n_calls' = 0
    /\ result' = None
    /\ last_p' = None
    /\ UNCHANGED <<silero_vad, vad_enabled, audio_len, i, segment_start, processed_audio,
                   vad_segments, output, pc, trace, max_p, runs, spectrum,
          active_jobs, webhook, poll, stream>>

NextVAD == (\E flen \in FrameLens, p \in Probs : CallProcessFrame(flen, p)) \/ CallReset

SpecVAD == InitVAD /\ [][NextVAD]_vars

(* ------------------------- notions used by the claims ------------------- *)
(* frames a..b of the stream were all classified voiced *)
AllVoiced(a, b) == \A k \in a..b : trace[k].voiced
(* frames a..b of the stream were all classified unvoiced *)
AllUnvoiced(a, b) == \A k \in a..b : ~trace[k].voiced
(* a run of at least onset_frames voiced frames ends at b *)
OnsetRunEndsAt(b) ==
    /\ b - smoothed_vad.onset_frames + 1 >= 1
    /\ AllVoiced(b - smoothed_vad.onset_frames + 1, b)
(* the stream so far has no run of onset_frames consecutive voiced frames *)
NoOnsetRun == \A b \in 1..Len(trace) : ~OnsetRunEndsAt(b)
RECURSIVE TrailingVoiced(_)
(* length of the voiced run that ends at the k-th frame *)
TrailingVoiced(k) == IF k = 0 \/ ~trace[k].voiced THEN 0 ELSE 1 + TrailingVoiced(k - 1)
(* in_speech before the k-th call *)
InSpeechBefore(k) == k > 1 /\ trace[k - 1].in_speech
NumVoiced == Cardinality({k \in 1..Len(trace) : trace[k].voiced})
InProcess == pc \in {"loop", "done", "error"}

(* C1: debounce. As long as the stream holds no run of onset_frames consecutive
   voiced frames, no process_frame call emits, no segment is opened or recorded,
   process reports zero segments, and onset_counter is the length of the voiced
   run that ends at the last frame (0 after an unvoiced frame). *)
C1_Debounce ==
    (InProcess /\ NoOnsetRun) =>
        /\ \A k \in 1..Len(trace) : ~trace[k].emit /\ trace[k].payload = None
        /\ ~smoothed_vad.in_speech
        /\ smoothed_vad.onset_counter = TrailingVoiced(Len(trace))
        /\ segment_start = None /\ vad_segments = <<>> /\ processed_audio = <<>>
        /\ pc = "done" => output[1].num_segments = 0 /\ output[1].vad_segments = <<>>

(* voiced frames that are not consecutive, more of them than onset_frames, and
   still nothing reported *)
C1_Witness ==
    /\ pc = "done" /\ vad_enabled /\ NoOnsetRun
    /\ NumVoiced > smoothed_vad.onset_frames
    /\ output[1].num_segments = 0

(* C2: hangover merge. A run of at least onset_frames voiced frames ending at b,
   then g unvoiced frames with 1 <= g < hangover_frames, then voiced frames up to
   d: the machine is in speech after every frame b..d, every frame after b up to d
   is emitted alone, and the segment open at b is still the open one at d with no
   segment closed in between. *)
C2_HangoverMerge ==
    InProcess =>
    \A b \in 1..Len(trace) : \A g \in 1..(smoothed_vad.hangover_frames - 1) :
    \A d \in (b + g + 1)..Len(trace) :
        (OnsetRunEndsAt(b) /\ AllUnvoiced(b + 1, b + g) /\ AllVoiced(b + g + 1, d)) =>
            /\ trace[b].start # None
            /\ \A k \in b..d :
                  /\ trace[k].in_speech
                  /\ trace[k].start = trace[b].start
                  /\ trace[k].nsegs = trace[b].nsegs
                  /\ ~trace[k].closed
                  /\ k > b => trace[k].emit /\ trace[k].payload = Some(<<trace[k].frame>>)

C2_Witness ==
    /\ pc = "done"
    /\ \E b \in 1..Len(trace) : \E g \in 1..(smoothed_vad.hangover_frames - 1) :
          /\ b + g + 1 = Len(trace)
          /\ OnsetRunEndsAt(b) /\ AllUnvoiced(b + 1, b + g) /\ trace[b + g + 1].voiced
          /\ trace[b + g + 1].emit
    /\ Len(vad_segments) = 1

(* C3: hangover split. A run of at least onset_frames voiced frames ending at b,
   then unvoiced frames b+1..c-1, at least hangover_frames + 1 of them, then a
   voiced run c..d of at least onset_frames frames: the first run's segment is
   closed by frame b + hangover_frames + 1 and stays the only one closed up to d,
   no segment is open when the second run starts, the second run opens a segment
   of its own with another start, and at the end of a clip that stops at d the
   list has one entry for each of the two runs. *)
C3_HangoverSplit ==
    InProcess =>
    \A b \in 1..Len(trace) : \A c \in (b + smoothed_vad.hangover_frames + 2)..Len(trace) :
    \A d \in (c + smoothed_vad.onset_frames - 1)..Len(trace) :
        (OnsetRunEndsAt(b) /\ AllUnvoiced(b + 1, c - 1) /\ AllVoiced(c, d)) =>
            /\ trace[b].start # None
            /\ trace[b + smoothed_vad.hangover_frames + 1].closed
            /\ \A k \in (b + smoothed_vad.hangover_frames + 1)..d :
                  trace[k].nsegs = trace[b].nsegs + 1
            /\ trace[c - 1].start = None /\ ~trace[c - 1].in_speech
            /\ trace[c + smoothed_vad.onset_frames - 1].opened
            /\ trace[d].start # None /\ ~RatEq(trace[d].start[1], trace[b].start[1])
            /\ (pc = "done" /\ d = Len(trace)) =>
                  /\ Len(vad_segments) = trace[b].nsegs + 2
                  /\ vad_segments[Len(vad_segments) - 1].start = trace[b].start[1]
                  /\ vad_segments[Len(vad_segments)].start = trace[d].start[1]

C3_Witness ==
    /\ pc = "done" /\ Len(vad_segments) = 2
    /\ \E b \in 1..Len(trace) : \E c \in (b + smoothed_vad.hangover_frames + 2)..Len(trace) :
          /\ OnsetRunEndsAt(b) /\ AllUnvoiced(b + 1, c - 1)
          /\ c + smoothed_vad.onset_frames - 1 = Len(trace)
          /\ AllVoiced(c, Len(trace))
          /\ smoothed_vad.hangover_frames > 0

(* the segment list process returns *)
Reported == output[1].vad_segments
(* sample position q of the filtered output lies in [start*sampleRate, end*sampleRate) *)
Covers(seg, q) ==
    /\ seg.start.num * target_sr <= q * seg.start.den
    /\ q * seg.end.den < seg.end.num * target_sr

(* C4: the segment list process returns is strictly ordered by start and
   non-overlapping: consecutive segments have start_i < start_{i+1} and
   end_i <= start_{i+1}. *)
C4_OrderedDisjoint ==
    (pc = "done" /\ vad_enabled) =>
        \A k \in 1..(Len(Reported) - 1) :
            /\ RatLess(Reported[k].start, Reported[k + 1].start)
            /\ RatLeq(Reported[k].end, Reported[k + 1].start)

(* C5: a segment that opens gets the start outputCursor / sampleRate, the number
   of samples appended to the output before that emission over the sample rate,
   the first segment and every later one. *)
C5_StartIsCursor ==
    InProcess =>
        \A k \in 1..Len(trace) :
            trace[k].opened => RatEq(trace[k].start[1], Rat(trace[k].cursor, target_sr))

(* C6: at the end of process with VAD enabled every sample position of the
   filtered output lies in the interval of exactly one recorded segment. *)
C6_ExactlyOneSegment ==
    (pc = "done" /\ vad_enabled) =>
        \A q \in 0..(OutputCursor(processed_audio) - 1) :
            Cardinality({k \in 1..Len(Reported) : Covers(Reported[k], q)}) = 1

(* C7: end-of-stream close. When the last frame of the clip was emitted, so that
   a segment is open when the loop ends, process records one more segment: it has
   the start of the open segment and the end total emitted samples / sampleRate,
   and it is part of the returned list; this also when the start is 0 and when
   the stream ends inside the hangover. *)
C7_EndOfStreamClose ==
    (pc = "done" /\ vad_enabled /\ trace # <<>> /\ trace[Len(trace)].emit) =>
        /\ segment_start # None
        /\ Len(vad_segments) = trace[Len(trace)].nsegs + 1
        /\ vad_segments[Len(vad_segments)].start = segment_start[1]
        /\ RatEq(vad_segments[Len(vad_segments)].end,
                 Rat(OutputCursor(processed_audio), target_sr))
        /\ Reported = vad_segments
        /\ output[1].num_segments = Len(vad_segments)

(* the clip ends inside the hangover of its first segment, which starts at 0 *)
C7_Witness ==
    /\ pc = "done" /\ vad_enabled /\ trace # <<>> /\ trace[Len(trace)].emit
    /\ ~trace[Len(trace)].voiced
    /\ smoothed_vad.in_speech /\ smoothed_vad.hangover_counter > 0
    /\ Len(vad_segments) = 1 /\ vad_segments[1].start.num = 0

(* C8: pre-roll. When a call on stream frame k turns in_speech on, its payload
   ends with frame k, holds at least min(prefill_frames, k) frames before it, and
   its frames are consecutive stream frames in stream order. *)
C8_PreRoll ==
    InProcess =>
        \A j \in 1..Len(trace) :
            (trace[j].in_speech /\ ~InSpeechBefore(j)) =>
                /\ trace[j].emit /\ trace[j].payload # None
                /\ LET pl == trace[j].payload[1]
                       k  == trace[j].frame.idx
                   IN  /\ Len(pl) >= Min(smoothed_vad.prefill_frames, k) + 1
                       /\ pl[Len(pl)] = trace[j].frame
                       /\ \A m \in 1..Len(pl) :
                             /\ j - (Len(pl) - m) >= 1
                             /\ pl[m] = trace[j - (Len(pl) - m)].frame
                             /\ pl[m].idx = k - (Len(pl) - m)

(* an onset late in the stream whose payload brings prefill_frames earlier frames *)
C8_Witness ==
    /\ InProcess
    /\ \E j \in 1..Len(trace) :
          /\ trace[j].in_speech /\ ~InSpeechBefore(j)
          /\ smoothed_vad.prefill_frames >= 2
          /\ trace[j].frame.idx > smoothed_vad.prefill_frames
          /\ Len(trace[j].payload[1]) = smoothed_vad.prefill_frames + 1

(* C9: counter invariant. After construction, after reset() and after every
   process_frame call, 0 <= onset_counter <= onset_frames and
   0 <= hangover_counter <= hangover_frames. *)
C9_CounterInvariant ==
    /\ 0 <= smoothed_vad.onset_counter
    /\ smoothed_vad.onset_counter <= smoothed_vad.onset_frames
    /\ 0 <= smoothed_vad.hangover_counter
    /\ smoothed_vad.hangover_counter <= smoothed_vad.hangover_frames

(* after a reset, speech confirmed again and the hangover run down to 0 by
   unvoiced frames *)
C9_Witness ==
    /\ pc = "api" /\ Len(trace) > n_calls /\ n_calls > 0
    /\ smoothed_vad.in_speech
    /\ smoothed_vad.hangover_frames > 0 /\ smoothed_vad.hangover_counter = 0
    /\ ~trace[Len(trace)].voiced

(* C10: ring buffer. After n process_frame calls since construction or reset()
   the buffer holds exactly the frames of the last min(n, prefill_frames + 1)
   calls in arrival order, the newest last, never more than prefill_frames + 1;
   the frame of a call is in the buffer whatever the call decided (it is there
   also when the classifier refused it). *)
C10_RingBuffer ==
    LET buf == smoothed_vad.frame_buffer
        m   == Min(n_calls, smoothed_vad.prefill_frames + 1)
    IN  /\ Len(buf) <= smoothed_vad.prefill_frames + 1
        /\ Len(buf) = m
        /\ \A j \in 1..m : buf[j] = trace[Len(trace) - m + j].frame
        /\ n_calls > 0 => buf[Len(buf)] = trace[Len(trace)].frame

(* a full buffer that has dropped frames since the last reset *)
C10_Witness ==
    /\ pc = "api" /\ Len(trace) > n_calls
    /\ n_calls > smoothed_vad.prefill_frames + 1
    /\ smoothed_vad.prefill_frames > 0
    /\ Len(smoothed_vad.frame_buffer) = smoothed_vad.prefill_frames + 1

(* the SmoothedVAD a constructor call with the configuration of sv returns *)
FreshLike(sv) == NewSmoothedVAD(sv.prefill_frames, sv.hangover_frames, sv.onset_frames)
(* a classifier answer that gives the voiced decision v *)
ProbFor(v) == CHOOSE q \in Probs : IsSpeech(silero_vad, q) = v
RECURSIVE Replay(_, _)
(* the frames of the calls k.. of the history fed to the instance sv: the state it
   ends in, and whether each call returned what the history recorded *)
Replay(sv, k) ==
    IF k > Len(trace) THEN [vad |-> sv, same |-> TRUE]
    ELSE LET e    == trace[k]
             res  == ProcessFrame(sv, silero_vad, e.frame, ProbFor(e.voiced))
             rest == Replay(res.vad, k + 1)
         IN  [vad  |-> rest.vad,
              same |-> /\ rest.same
                       /\ res.is_speech = e.emit
                       /\ res.speech_data = e.payload
                       /\ res.vad.in_speech = e.in_speech]

(* C11: idempotent reset. Right after reset() the object equals a freshly
   constructed one with the same configuration and a further reset() leaves it as
   it is; the calls made since the last reset() returned exactly what a fresh
   instance returns for the same frames, and left the object in the same state. *)
C11_ResetReplay ==
    pc = "api" =>
        LET replayed == Replay(FreshLike(smoothed_vad), Len(trace) - n_calls + 1)
        IN  /\ replayed.same
            /\ replayed.vad = smoothed_vad
            /\ n_calls = 0 =>
                  /\ smoothed_vad = FreshLike(smoothed_vad)
                  /\ ResetVAD(smoothed_vad) = smoothed_vad

(* reset() in the middle of speech with frames in the buffer, then an onset whose
   payload is returned *)
C11_Witness ==
    /\ pc = "api" /\ 0 < n_calls /\ n_calls < Len(trace)
    /\ trace[Len(trace) - n_calls].in_speech
    /\ smoothed_vad.prefill_frames >= 1
    /\ trace[Len(trace)].emit /\ trace[Len(trace)].payload # None

(* the number of frames the loop of process cuts a clip of alen samples into *)
ClipFrames(alen) == (alen + frame_samples - 1) \div frame_samples

(* C12: a clip no frame of which is classified strictly above the threshold: no
   call emits, in_speech is false after every frame, no segment is opened or
   recorded and nothing is appended to the filtered buffer; process reports zero
   segments. *)
C12_NeverAboveThreshold ==
    (InProcess /\ vad_enabled /\ (max_p = None \/ max_p[1] <= silero_vad.threshold)) =>
        /\ \A k \in 1..Len(trace) :
              ~trace[k].emit /\ trace[k].payload = None /\ ~trace[k].in_speech
        /\ ~smoothed_vad.in_speech
        /\ segment_start = None /\ vad_segments = <<>> /\ processed_audio = <<>>
        /\ pc = "done" => output[1].num_segments = 0 /\ output[1].vad_segments = <<>>

(* a finished clip of several frames in which an answer equal to the threshold
   was the largest *)
C12_Witness ==
    /\ pc = "done" /\ vad_enabled /\ Len(trace) >= 3
    /\ max_p = Some(silero_vad.threshold)
    /\ processed_audio = <<>> /\ output[1].num_segments = 0

(* C15: a clip of fewer than onset_frames frames never confirms speech, whatever
   the classifier answers: no call emits, in_speech is false after every frame
   and no segment is recorded. *)
C15_ShortClip ==
    (InProcess /\ vad_enabled /\ ClipFrames(audio_len) < smoothed_vad.onset_frames) =>
        /\ \A k \in 1..Len(trace) : ~trace[k].emit /\ ~trace[k].in_speech
        /\ ~smoothed_vad.in_speech
        /\ segment_start = None /\ vad_segments = <<>> /\ processed_audio = <<>>
        /\ pc = "done" => output[1].num_segments = 0

(* a finished clip of onset_frames - 1 frames, all of them voiced *)
C15_Witness ==
    /\ pc = "done" /\ vad_enabled
    /\ Len(trace) >= 1 /\ Len(trace) = smoothed_vad.onset_frames - 1
    /\ AllVoiced(1, Len(trace))
    /\ output[1].num_segments = 0

(* a classifier answer below the threshold *)
BelowThreshold == CHOOSE q \in Probs : q < silero_vad.threshold

(* C16: the voiced decision is strict. In every process_frame call the frame is
   taken as voiced exactly when the classifier's answer is strictly greater than
   the threshold, and a call whose answer equals the threshold leaves the object
   and returns exactly what the same call with an answer below the threshold
   would. *)
C16_StrictComparison ==
    [][(Len(trace') = Len(trace) + 1 /\ last_p' # None) =>
          LET e == trace'[Len(trace')]
              p == last_p'[1]
              below == ProcessFrame(smoothed_vad, silero_vad, e.frame, BelowThreshold)
          IN  /\ e.voiced <=> (p > silero_vad.threshold)
              /\ p <= silero_vad.threshold =>
                    /\ smoothed_vad' = below.vad
                    /\ result' = Some([raised |-> FALSE, is_speech |-> below.is_speech,
                                       speech_data |-> below.speech_data])
              /\ (p > silero_vad.threshold /\ ~smoothed_vad.in_speech) =>
                    smoothed_vad'.onset_counter = smoothed_vad.onset_counter + 1
                    \/ smoothed_vad'.in_speech
              /\ (p > silero_vad.threshold /\ smoothed_vad.in_speech) =>
                    smoothed_vad'.hangover_counter = smoothed_vad.hangover_frames]_vars

(* answers equal to the threshold arrive while the machine waits for an onset and
   while it is in speech *)
C16_Witness ==
    /\ InProcess /\ last_p = Some(silero_vad.threshold)
    /\ Len(trace) >= 2
    /\ trace[Len(trace) - 1].in_speech
    /\ smoothed_vad.in_speech
    /\ smoothed_vad.hangover_counter < smoothed_vad.hangover_frames

(* ------------- process with its default arguments on two given clips ----- *)
(* the classifier answers of the two clips: 100 frames at 0.9, and
   [0.1]*20 + [0.9]*2 + [0.9]*30 + [0.1]*5 + [0.9]*10 + [0.1]*20 *)
ConstantClip == [k \in 1..100 |-> 90]
MergedClip ==
    [k \in 1..20 |-> 10] \o [k \in 1..2 |-> 90] \o [k \in 1..30 |-> 90]
    \o [k \in 1..5 |-> 10] \o [k \in 1..10 |-> 90] \o [k \in 1..20 |-> 10]
ScenarioClips == {ConstantClip, MergedClip}
(* the clip of the given length *)
ClipOfLen(alen) == CHOOSE c \in ScenarioClips : Len(c) * frame_samples = alen

InitScenario ==
    /\ silero_vad = [threshold |-> vad_threshold]
    /\ vad_enabled = TRUE
    /\ audio_len \in {Len(c) * frame_samples : c \in ScenarioClips}
    /\ smoothed_vad = NewSmoothedVAD(prefill_frames, hangover_frames, onset_frames)
    /\ i = 0
    /\ segment_start = None
    /\ processed_audio = <<>>
    /\ vad_segments = <<>>
    /\ output = None
    /\ pc = "loop"
    /\ result = None
    /\ n_calls = 0
    /\ trace = <<>>
    /\ last_p = None
    /\ max_p = None
    /\ runs = <<>>
    /\ spectrum = None
    /\ BackendIdle

(* one iteration of the frame loop, the classifier answering as the clip says *)
StepScenario == Step(ClipOfLen(audio_len)[i \div frame_samples + 1])

NextScenario == StepScenario \/ Finish

SpecScenario == InitScenario /\ [][NextScenario]_vars

(* the frames of the calls a..b of the history *)
FramesOf(a, b) == [k \in 1..(b - a + 1) |-> trace[a + k - 1].frame]
OnConstantClip == pc \in {"loop", "done"} /\ audio_len = Len(ConstantClip) * frame_samples
OnMergedClip == pc \in {"loop", "done"} /\ audio_len = Len(MergedClip) * frame_samples

(* C13: default configuration, 100 frames all classified 0.9. Nothing is emitted
   before the onset_frames-th frame; that frame's payload is all frames so far;
   every later frame is emitted alone with the hangover full and no segment
   closed; at the end the output is the 100 frames, each once and in order, and
   the one segment, from 0 to 100 frames in seconds, is the one closed at the end
   of the stream. *)
C13_ConstantSpeech ==
    OnConstantClip =>
        /\ \A k \in 1..Len(trace) :
              /\ ~trace[k].closed
              /\ k < onset_frames => ~trace[k].emit /\ ~trace[k].in_speech
              /\ k = onset_frames => trace[k].emit /\ trace[k].payload = Some(FramesOf(1, k))
              /\ k > onset_frames => trace[k].emit /\ trace[k].payload = Some(<<trace[k].frame>>)
              /\ k >= onset_frames => trace[k].in_speech
        /\ Len(trace) >= onset_frames => smoothed_vad.hangover_counter = hangover_frames
        /\ pc = "loop" => vad_segments = <<>>
        /\ pc = "done" =>
              /\ Len(trace) = Len(ConstantClip)
              /\ Concatenate(processed_audio) = FramesOf(1, Len(ConstantClip))
              /\ Len(vad_segments) = 1 /\ output[1].num_segments = 1
              /\ RatEq(vad_segments[1].start, Rat(0, 1))
              /\ RatEq(vad_segments[1].end, Rat(Len(ConstantClip) * frame_samples, target_sr))

C13_Witness ==
    /\ OnConstantClip /\ pc = "done"
    /\ Len(trace) = 100 /\ output[1].num_segments = 1
    /\ output[1].len = 100 * frame_samples

(* C14: default configuration, the clip [0.1]*20 + [0.9]*32 + [0.1]*5 + [0.9]*10
   + [0.1]*20. The first emission is at the onset_frames-th voiced frame and
   carries the prefill_frames frames before it; from there every frame is emitted
   alone through the rest of the first run, the gap, the second run and
   hangover_frames frames of the tail; the next frame emits nothing and closes
   the segment; the frames after it emit nothing; process reports exactly that
   one segment. *)
C14_MergedRuns ==
    OnMergedClip =>
        LET onset == 20 + onset_frames
            tail  == 20 + 32 + 5 + 10 + hangover_frames
            first == onset - prefill_frames
        IN  /\ \A k \in 1..Len(trace) :
                  /\ k < onset => ~trace[k].emit /\ trace[k].nsegs = 0
                  /\ k = onset => /\ trace[k].emit /\ trace[k].opened
                                  /\ trace[k].payload = Some(FramesOf(first, onset))
                  /\ (k > onset /\ k <= tail) =>
                        /\ trace[k].emit /\ trace[k].payload = Some(<<trace[k].frame>>)
                        /\ trace[k].in_speech /\ trace[k].nsegs = 0 /\ ~trace[k].opened
                  /\ k = tail + 1 => ~trace[k].emit /\ trace[k].closed /\ ~trace[k].in_speech
                  /\ k > tail + 1 => ~trace[k].emit /\ ~trace[k].closed /\ ~trace[k].in_speech
                  /\ k > tail => trace[k].nsegs = 1 /\ trace[k].start = None
            /\ pc = "done" =>
                  /\ Len(trace) = Len(MergedClip)
                  /\ Len(vad_segments) = 1 /\ output[1].num_segments = 1
                  /\ Concatenate(processed_audio) = FramesOf(first, tail)
                  /\ RatEq(vad_segments[1].start, Rat(0, 1))
                  /\ RatEq(vad_segments[1].end,
                           Rat((tail - first + 1) * frame_samples, target_sr))

C14_Witness ==
    /\ OnMergedClip /\ pc = "done"
    /\ Len(trace) = 87 /\ output[1].num_segments = 1
    /\ trace[83].closed /\ trace[82].emit /\ ~trace[82].voiced
    /\ output[1].len = 76 * frame_samples

(* ------ a SmoothedVAD whose classifier breaks its contract of [0, 1] ----- *)
(* classifier answers outside [0.0, 1.0] *)
FaultProbs == {-20, 150}

NextFault ==
    \/ \E flen \in FrameLens, p \in Probs \cup FaultProbs : CallProcessFrame(flen, p)
    \/ CallReset

SpecFault == InitVAD /\ [][NextFault]_vars

(* C18: a classifier answer outside [0.0, 1.0] is rejected: the call ends in an
   error, returns no emission, and changes neither counter nor in_speech. *)
C18_RejectOutOfRange ==
    [][(Len(trace') = Len(trace) + 1 /\ last_p' # None /\ last_p'[1] \in FaultProbs) =>
          /\ result'[1].raised
          /\ ~result'[1].is_speech /\ result'[1].speech_data = None
          /\ smoothed_vad'.onset_counter = smoothed_vad.onset_counter
          /\ smoothed_vad'.hangover_counter = smoothed_vad.hangover_counter
          /\ smoothed_vad'.in_speech = smoothed_vad.in_speech]_vars

(* C19: a frame whose length is not frame_samples. The call raises: it returns
   no emission and leaves onset_counter, hangover_counter and in_speech as they
   were; a frame of frame_samples samples does not raise. In process the
   exception ends the run: no frame is processed after it. *)
C19_FrameLengthFatal ==
    [][/\ Len(trace') = Len(trace) + 1 =>
             LET e == trace'[Len(trace')]
             IN  /\ result'[1].raised <=> (e.frame.len # frame_samples)
                 /\ result'[1].raised =>
                       /\ ~result'[1].is_speech /\ result'[1].speech_data = None
                       /\ ~e.emit /\ e.payload = None
                       /\ smoothed_vad'.onset_counter = smoothed_vad.onset_counter
                       /\ smoothed_vad'.hangover_counter = smoothed_vad.hangover_counter
                       /\ smoothed_vad'.in_speech = smoothed_vad.in_speech
       /\ pc = "error" => pc' = "error" /\ trace' = trace]_vars

(* a short frame refused in the middle of speech, the hangover partly used *)
C19_Witness ==
    /\ pc = "api" /\ result # None /\ result[1].raised
    /\ trace[Len(trace)].frame.len # frame_samples
    /\ smoothed_vad.in_speech
    /\ smoothed_vad.hangover_counter > 0
    /\ smoothed_vad.hangover_counter < smoothed_vad.hangover_frames

(* ---- two process calls on the preprocessor singleton, steps interleaved -- *)
(* get_handy_preprocessor() hands every caller the same HandyPreprocessor, whose
   one SileroVAD (silero_vad) every run writes its vad_threshold into; each run
   has its own SmoothedVAD and its own locals, kept in runs[r]. *)
RunIds == {1, 2}
(* the vad_threshold argument of each run *)
RunThreshold == <<vad_threshold, 50>>
(* classifier answers tried: below both thresholds, between them, above both *)
RunProbs == {10, 40, 90}

NewRun(th, alen, onf) ==
    [pc |-> "start", vad_threshold |-> th, audio_len |-> alen, onset_frames |-> onf,
     i |-> 0, smoothed_vad |-> None, segment_start |-> None, processed_audio |-> <<>>,
     vad_segments |-> <<>>, trace |-> <<>>]

SingleRunVars == <<smoothed_vad, vad_enabled, audio_len, i, segment_start, processed_audio,
                   vad_segments, output, pc, result, n_calls, trace, last_p, max_p,
                   spectrum,
          active_jobs, webhook, poll, stream>>

InitConcurrent ==
    /\ silero_vad = [threshold |-> vad_threshold]
    /\ \E onf \in {1, 2} :
       \E lens \in [RunIds -> {f * frame_samples : f \in 1..MaxRunFrames}] :
          runs = [r \in RunIds |-> NewRun(RunThreshold[r], lens[r], onf)]
    /\ vad_enabled = TRUE
    /\ audio_len = 0
    /\ smoothed_vad = NewSmoothedVAD(0, 0, 1)
    /\ i = 0
    /\ segment_start = None
    /\ processed_audio = <<>>
    /\ vad_segments = <<>>
    /\ output = None
    /\ pc = "runs"
    /\ result = None
    /\ n_calls = 0
    /\ trace = <<>>
    /\ last_p = None
    /\ max_p = None
    /\ spectrum = None
    /\ BackendIdle

(* run r writes its threshold into the shared SileroVAD and builds its SmoothedVAD *)
RunStart(r) ==
    /\ pc = "runs" /\ runs[r].pc = "start"
    /\ silero_vad' = [silero_vad EXCEPT !.threshold = runs[r].vad_threshold]
    /\ runs' = [runs EXCEPT ![r].pc = "loop",
                            ![r].smoothed_vad = Some(NewSmoothedVAD(1, 1, runs[r].onset_frames))]
    /\ UNCHANGED SingleRunVars

(* one iteration of the frame loop of run r, the classifier answering p *)
RunStep(r, p) ==
    /\ pc = "runs" /\ runs[r].pc = "loop" /\ runs[r].i < runs[r].audio_len
    /\ LET run    == runs[r]
           frame  == PadFrame(Slice(run.audio_len, run.i))
           res    == ProcessFrame(run.smoothed_vad[1], silero_vad, frame, p)
           before == Accumulator(run.segment_start, run.processed_audio, run.vad_segments)
           after  == IF res.raised THEN before ELSE Accumulate(before, res)
       IN  runs' = [runs EXCEPT ![r] =
                [run EXCEPT !.smoothed_vad = Some(res.vad),
                            !.segment_start = after.segment_start,
                            !.processed_audio = after.processed_audio,
                            !.vad_segments = after.vad_segments,
                            !.pc = IF res.raised THEN "error" ELSE "loop",
                            !.i = IF res.raised THEN run.i ELSE run.i + frame_samples,
                            !.trace = Append(run.trace,
                                [frame |-> frame, p |-> p,
                                 threshold |-> silero_vad.threshold,
                                 voiced |-> IsSpeech(silero_vad, p),
                                 emit |-> res.is_speech,
                                 in_speech |-> res.vad.in_speech])]]
    /\ UNCHANGED silero_vad
    /\ UNCHANGED SingleRunVars

(* the end of the loop of run r *)
RunFinish(r) ==
    /\ pc = "runs" /\ runs[r].pc = "loop" /\ runs[r].i >= runs[r].audio_len
    /\ LET run == runs[r]
           acc == CloseLast(Accumulator(run.segment_start, run.processed_audio,
                                        run.vad_segments))
       IN  runs' = [runs EXCEPT ![r].pc = "done", ![r].vad_segments = acc.vad_segments]
    /\ UNCHANGED silero_vad
    /\ UNCHANGED SingleRunVars

NextConcurrent ==
    \E r \in RunIds : RunStart(r) \/ (\E p \in RunProbs : RunStep(r, p)) \/ RunFinish(r)

SpecConcurrent == InitConcurrent /\ [][NextConcurrent]_vars

RECURSIVE ReplayRun(_, _)
(* the SmoothedVAD sv after the calls recorded in entries, and nothing else *)
ReplayRun(sv, entries) ==
    IF entries = <<>> THEN sv
    ELSE ReplayRun(ProcessFrame(sv, [threshold |-> Head(entries).threshold],
                                Head(entries).frame, Head(entries).p).vad,
                   Tail(entries))

(* C17: runs are isolated. Every frame of a run is classified against the
   vad_threshold of that run, whatever the other run does in between, and the
   SmoothedVAD of a run is in the state its own frames alone put it in. *)
C17_RunIsolation ==
    \A r \in DOMAIN runs :
        /\ \A k \in 1..Len(runs[r].trace) :
              /\ runs[r].trace[k].threshold = runs[r].vad_threshold
              /\ runs[r].trace[k].voiced <=> (runs[r].trace[k].p > runs[r].vad_threshold)
        /\ runs[r].smoothed_vad # None =>
              runs[r].smoothed_vad[1] =
                  ReplayRun(NewSmoothedVAD(1, 1, runs[r].onset_frames), runs[r].trace)

(* ---- HandyPreprocessor._generate_spectrum ------------------------------- *)
n_fft    == 512       \* librosa.stft(audio, n_fft=512, ...)
freq_min == 80        \* lower edge of the displayed range, Hz
freq_max == 4000      \* upper edge of the displayed range, Hz
db_min   == -55       \* the level normalised to 0
db_max   == -8        \* the level normalised to 1

(* values of num_buckets tried: the default, and one fine enough to leave bands
   without a frequency bin *)
NumBuckets == {16, 32}

(* S_db = amplitude_to_db(S, ref=np.max) lies within 80 dB below its maximum,
   which is 0 dB; the mean of a band over its bins and all frames, in whole dB,
   is the input of the model.  A buffer is described by the level of band 0
   and the drop per band. *)
DbLevels == {-80, -55, -43, -31, -20, -8, 0}
DbSlopes == {0, 2, 5}
Max(a, b) == IF a > b THEN a ELSE b
(* amplitude_to_db(S, ref=np.max) is 20 log10(max(amin, S)) - 20 log10(max(amin,
   max S)) with amin = 1e-5, which is -100 dB; an amplitude is None when it is
   zero and its level in dB otherwise. *)
amin_db == -100
AminFloor(a) == IF a = None THEN amin_db ELSE Max(amin_db, a[1])
AmplitudeToDb(a, ref) == AminFloor(a) - AminFloor(ref)
(* the mean of S_db over a band; in an all-zero buffer every amplitude, and so
   the maximum, is zero *)
BucketDb(buf, b) ==
    IF buf.silent THEN AmplitudeToDb(None, None)
    ELSE Max(-80, Min(0, buf.level - buf.slope * b))

(* freqs = fft_frequencies(sr, n_fft): bin k is at k * target_sr / n_fft Hz,
   k = 0 .. n_fft / 2; the bin spacing as a fraction in lowest terms. *)
RECURSIVE GCD(_, _)
GCD(a, b) == IF b = 0 THEN a ELSE GCD(b, a % b)
BinSpacing == Rat(target_sr \div GCD(target_sr, n_fft), n_fft \div GCD(target_sr, n_fft))
FreqBins == 0..(n_fft \div 2)
(* Band b of n is [freq_start, freq_end) with
   freq = freq_min + (freq_max - freq_min) * (b / n) ^ 2; both sides of the
   comparison are multiplied by n * n * BinSpacing.den to stay in the integers. *)
BandEdge(b, n) == BinSpacing.den * (freq_min * n * n + (freq_max - freq_min) * b * b)
(* variant: the upper edge belongs to the band, freqs <= freq_end *)
InBandClosedEnd(k, b, n) ==
    /\ k * BinSpacing.num * n * n >= BandEdge(b, n)
    /\ k * BinSpacing.num * n * n <= BandEdge(b + 1, n)
InBand(k, b, n) ==
    /\ k * BinSpacing.num * n * n >= BandEdge(b, n)
    /\ k * BinSpacing.num * n * n < BandEdge(b + 1, n)
AnyMask(b, n) == \E k \in FreqBins : InBand(k, b, n)

(* np.clip((bucket_db - db_min) / (db_max - db_min), 0, 1), in units of
   1 / (db_max - db_min) *)
Normalized(db) == Max(0, Min(db_max - db_min, db - db_min))

(* (normalized * 1.3) ** 0.7 in thousandths, rounded, for normalized =
   j / (db_max - db_min), j = 0 .. 47 (entry j + 1) *)
GainCurve ==
    <<0, 81, 132, 175, 214, 250, 284, 317, 348, 378, 407, 435, 462, 489, 515, 540,
      565, 590, 614, 637, 661, 684, 706, 729, 751, 772, 794, 815, 836, 857, 878, 898,
      918, 938, 958, 978, 997, 1016, 1035, 1054, 1073, 1092, 1111, 1129, 1147, 1166,
      1184, 1202>>

(* a bucket value of 1.0, in thousandths *)
Unit == 1000

(* the value appended for a band with bins, in thousandths *)
BucketValueNoFinalClip(db) == GainCurve[Normalized(db) + 1]
BucketValue(db) == Max(0, Min(Unit, GainCurve[Normalized(db) + 1]))

InitSpectrum ==
    /\ silero_vad = [threshold |-> vad_threshold]
    /\ \E n \in NumBuckets : \E lv \in DbLevels : \E sl \in DbSlopes : \E z \in BOOLEAN :
          /\ z => (lv = 0 /\ sl = 0)
          /\ spectrum = Some([num_buckets |-> n,
                              audio |-> [silent |-> z, level |-> lv, slope |-> sl],
                              buckets |-> <<>>])
    /\ runs = <<>>
    /\ BackendIdle
    /\ vad_enabled = TRUE
    /\ audio_len = 0
    /\ smoothed_vad = NewSmoothedVAD(0, 0, 1)
    /\ i = 0
    /\ segment_start = None
    /\ processed_audio = <<>>
    /\ vad_segments = <<>>
    /\ output = None
    /\ pc = "spectrum"
    /\ result = None
    /\ n_calls = 0
    /\ trace = <<>>
    /\ last_p = None
    /\ max_p = None

SpectrumVarsUnchanged ==
    UNCHANGED <<silero_vad, smoothed_vad, vad_enabled, audio_len, i, segment_start,
                processed_audio, vad_segments, output, result, n_calls, trace, last_p,
                max_p, runs, active_jobs, webhook, poll, stream>>

(* one iteration of "for i in range(num_buckets)" *)
SpectrumBand ==
    /\ pc = "spectrum" /\ Len(spectrum[1].buckets) < spectrum[1].num_buckets
    /\ LET sp == spectrum[1]
           b  == Len(sp.buckets)
           v  == IF AnyMask(b, sp.num_buckets)
                 THEN BucketValue(BucketDb(sp.audio, b))
                 ELSE 0
       IN  spectrum' = Some([sp EXCEPT !.buckets = Append(sp.buckets, v)])
    /\ pc' = pc
    /\ SpectrumVarsUnchanged

(* "return buckets" *)
SpectrumReturn ==
    /\ pc = "spectrum" /\ Len(spectrum[1].buckets) >= spectrum[1].num_buckets
    /\ pc' = "returned"
    /\ spectrum' = spectrum
    /\ SpectrumVarsUnchanged

NextSpectrum == SpectrumBand \/ SpectrumReturn

SpecSpectrum == InitSpectrum /\ [][NextSpectrum]_vars

(* C20: spectrum bounds. What _generate_spectrum returns has exactly
   num_buckets values, every value is within [0, 1], and the value of a band
   without a frequency bin is 0.0. *)
C20_SpectrumBounds ==
    spectrum # None =>
        LET sp == spectrum[1] IN
        /\ \A b \in 1..Len(sp.buckets) :
              /\ 0 <= sp.buckets[b] /\ sp.buckets[b] <= Unit
              /\ ~AnyMask(b - 1, sp.num_buckets) => sp.buckets[b] = 0
        /\ pc = "returned" => Len(sp.buckets) = sp.num_buckets

(* a returned profile with a band without bins and a band whose curve value
   was above 1.0 before the last clip *)
C20_Witness ==
    /\ spectrum # None /\ pc = "returned"
    /\ \E b \in 1..Len(spectrum[1].buckets) : ~AnyMask(b - 1, spectrum[1].num_buckets)
    /\ \E b \in 1..Len(spectrum[1].buckets) :
          /\ AnyMask(b - 1, spectrum[1].num_buckets)
          /\ BucketValueNoFinalClip(BucketDb(spectrum[1].audio, b - 1)) > Unit
          /\ spectrum[1].buckets[b] = Unit

(* C21: for an all-zero input buffer every bucket of the profile is 0.0. *)
C21_SilentIsZero ==
    (spectrum # None /\ spectrum[1].audio.silent) =>
        \A b \in 1..Len(spectrum[1].buckets) : spectrum[1].buckets[b] = 0

(* ---------------- the transitions of SmoothedVAD, step by step ----------- *)
(* the step is a process_frame call *)
IsCall == Len(trace') = Len(trace) + 1
(* the history record of the call the step makes *)
ThisCall == trace'[Len(trace')]
(* the call the step makes returned, and its frame was classified voiced / unvoiced *)
VoicedCall == IsCall /\ ~result'[1].raised /\ ThisCall.voiced
UnvoicedCall == IsCall /\ ~result'[1].raised /\ ~ThisCall.voiced

(* C22: onset confirmation. in_speech goes from false to true only in a
   process_frame call on a voiced frame that brings onset_counter to onset_frames
   or more, and every such call does it; that call sets hangover_counter to
   hangover_frames, onset_counter to 0, and returns the whole ring buffer, the
   current frame last, as one payload. A voiced frame outside speech that does not
   reach onset_frames adds 1 to onset_counter, changes nothing else and emits
   nothing. *)
C22_OnsetConfirmation ==
    [][/\ (~smoothed_vad.in_speech /\ smoothed_vad'.in_speech) =>
             /\ VoicedCall
             /\ smoothed_vad.onset_counter + 1 >= smoothed_vad.onset_frames
       /\ (VoicedCall /\ ~smoothed_vad.in_speech
             /\ smoothed_vad.onset_counter + 1 >= smoothed_vad.onset_frames) =>
             /\ smoothed_vad'.in_speech
             /\ smoothed_vad'.hangover_counter = smoothed_vad.hangover_frames
             /\ smoothed_vad'.onset_counter = 0
             /\ result'[1].is_speech
             /\ result'[1].speech_data = Some(smoothed_vad'.frame_buffer)
             /\ smoothed_vad'.frame_buffer = BufferAppend(smoothed_vad, ThisCall.frame)
             /\ smoothed_vad'.frame_buffer[Len(smoothed_vad'.frame_buffer)] = ThisCall.frame
       /\ (VoicedCall /\ ~smoothed_vad.in_speech
             /\ smoothed_vad.onset_counter + 1 < smoothed_vad.onset_frames) =>
             /\ smoothed_vad' = [smoothed_vad EXCEPT
                                    !.onset_counter = smoothed_vad.onset_counter + 1,
                                    !.frame_buffer = BufferAppend(smoothed_vad, ThisCall.frame)]
             /\ ~result'[1].is_speech /\ result'[1].speech_data = None]_vars

(* an onset confirmed by the second voiced frame in a row, its payload longer
   than the current frame, the counter back at 0 and the hangover full *)
C22_Witness ==
    /\ pc = "api" /\ n_calls >= 2 /\ result # None
    /\ smoothed_vad.onset_frames = 2 /\ smoothed_vad.hangover_frames > 0
    /\ ~trace[Len(trace) - 1].in_speech /\ trace[Len(trace) - 1].voiced
    /\ trace[Len(trace)].in_speech /\ trace[Len(trace)].voiced
    /\ smoothed_vad.onset_counter = 0
    /\ smoothed_vad.hangover_counter = smoothed_vad.hangover_frames
    /\ result[1].is_speech /\ Len(result[1].speech_data[1]) >= 2

(* the k-th call of the history was refused by the classifier *)
Raised(k) == DetectRaises(trace[k].frame)
(* the first call since construction or the last reset() *)
FirstCall == Len(trace) - n_calls + 1
(* the calls a..b all returned and were all classified unvoiced *)
UnvoicedRun(a, b) == \A k \in a..b : ~trace[k].voiced /\ ~Raised(k)

(* the history part of C23: the unvoiced frames that follow a voiced frame in
   speech *)
HangoverTail ==
    \A b \in FirstCall..Len(trace) : \A g \in 1..(smoothed_vad.hangover_frames + 1) :
        (/\ b + g <= Len(trace)
         /\ trace[b].voiced /\ ~Raised(b) /\ trace[b].in_speech
         /\ UnvoicedRun(b + 1, b + g)) =>
            /\ g <= smoothed_vad.hangover_frames =>
                  /\ trace[b + g].emit
                  /\ trace[b + g].payload = Some(<<trace[b + g].frame>>)
                  /\ trace[b + g].in_speech
                  /\ b + g = Len(trace) =>
                        smoothed_vad.hangover_counter = smoothed_vad.hangover_frames - g
            /\ g = smoothed_vad.hangover_frames + 1 =>
                  /\ ~trace[b + g].emit /\ trace[b + g].payload = None
                  /\ ~trace[b + g].in_speech
                  /\ b + g = Len(trace) => smoothed_vad.hangover_counter = 0

(* C23: hangover tail. After a voiced frame in a confirmed speech region the
   following unvoiced frames are emitted, each alone and each taking 1 from
   hangover_counter, exactly hangover_frames of them; the next unvoiced frame in
   a row finds hangover_counter = 0, turns in_speech off and emits nothing.
   in_speech goes from true to false in no other step, reset() excepted. *)
C23_HangoverExhaustion ==
    [][/\ HangoverTail'
       /\ (UnvoicedCall /\ smoothed_vad.in_speech /\ smoothed_vad.hangover_counter > 0) =>
             /\ smoothed_vad' = [smoothed_vad EXCEPT
                                    !.hangover_counter = smoothed_vad.hangover_counter - 1,
                                    !.frame_buffer = BufferAppend(smoothed_vad, ThisCall.frame)]
             /\ result'[1].is_speech
             /\ result'[1].speech_data = Some(<<ThisCall.frame>>)
       /\ (UnvoicedCall /\ smoothed_vad.in_speech /\ smoothed_vad.hangover_counter = 0) =>
             /\ smoothed_vad' = [smoothed_vad EXCEPT
                                    !.in_speech = FALSE,
                                    !.frame_buffer = BufferAppend(smoothed_vad, ThisCall.frame)]
             /\ ~result'[1].is_speech /\ result'[1].speech_data = None
       /\ (smoothed_vad.in_speech /\ ~smoothed_vad'.in_speech) =>
             \/ UnvoicedCall /\ smoothed_vad.hangover_counter = 0
             \/ ~IsCall /\ n_calls' = 0 /\ smoothed_vad' = ResetVAD(smoothed_vad)]_vars

(* a tail run to its end: hangover_frames unvoiced frames emitted, the next one
   ending the speech *)
C23_Witness ==
    /\ pc = "api" /\ smoothed_vad.hangover_frames >= 2
    /\ ~smoothed_vad.in_speech /\ smoothed_vad.hangover_counter = 0
    /\ \E b \in FirstCall..Len(trace) :
          /\ b + smoothed_vad.hangover_frames + 1 = Len(trace)
          /\ trace[b].voiced /\ ~Raised(b) /\ trace[b].in_speech
          /\ UnvoicedRun(b + 1, Len(trace))
          /\ trace[Len(trace) - 1].emit /\ ~trace[Len(trace)].emit

(* from call a, a voiced frame in speech, to call d every call returned and no
   run of unvoiced frames is longer than hangover_frames *)
GapsWithinHangover(a, d) ==
    /\ a >= FirstCall /\ a <= d /\ d <= Len(trace)
    /\ trace[a].voiced /\ trace[a].in_speech
    /\ \A k \in a..d : ~Raised(k)
    /\ \A k \in (a + 1)..d :
          \E j \in a..k : j >= k - smoothed_vad.hangover_frames /\ trace[j].voiced

(* the history part of C24, for the regions that reach the last call made; the
   shorter ones were the subject when their last call was the last one made *)
RegionGoesOn ==
    LET d == Len(trace)
    IN  \A a \in 1..(d - 1) :
            GapsWithinHangover(a, d) =>
                /\ trace[d].in_speech /\ trace[d].emit
                /\ trace[d].payload = Some(<<trace[d].frame>>)
                /\ ~trace[d].closed /\ trace[d].nsegs = trace[a].nsegs
                /\ trace[d].start = trace[a].start

(* C24: hangover refresh. Every voiced frame processed in speech sets
   hangover_counter to hangover_frames, whatever it was, changes nothing else and
   is emitted alone; so a region whose unvoiced gaps are never longer than
   hangover_frames frames goes on: every frame of it is emitted, in_speech stays
   true and its segment stays open. *)
C24_HangoverRefresh ==
    [][/\ RegionGoesOn'
       /\ (VoicedCall /\ smoothed_vad.in_speech) =>
             /\ smoothed_vad' = [smoothed_vad EXCEPT
                                    !.hangover_counter = smoothed_vad.hangover_frames,
                                    !.frame_buffer = BufferAppend(smoothed_vad, ThisCall.frame)]
             /\ result'[1].is_speech
             /\ result'[1].speech_data = Some(<<ThisCall.frame>>)]_vars

(* a region with more unvoiced frames in all than hangover_frames, in two gaps,
   still going on at the end of the clip *)
C24_Witness ==
    /\ pc = "done" /\ vad_enabled /\ smoothed_vad.hangover_frames >= 1
    /\ smoothed_vad.in_speech /\ Len(vad_segments) = 1
    /\ \E a \in 1..Len(trace) :
          /\ GapsWithinHangover(a, Len(trace))
          /\ Cardinality({k \in a..Len(trace) : ~trace[k].voiced})
                > smoothed_vad.hangover_frames
          /\ trace[Len(trace)].voiced /\ ~trace[Len(trace) - 1].voiced
          /\ smoothed_vad.hangover_counter = smoothed_vad.hangover_frames

(* in_speech when the k-th call was made, for a call since the last reset() *)
InSpeechAtCall(k) == k > FirstCall /\ trace[k - 1].in_speech
(* what the k-th call returned is (True, non-empty payload) or (False, None) *)
TwoShapes(k) ==
    \/ trace[k].emit /\ trace[k].payload # None /\ Len(trace[k].payload[1]) >= 1
    \/ ~trace[k].emit /\ trace[k].payload = None

(* C25 as stated: every result is (True, non-empty payload) or (False, None),
   and an emitted payload is a single frame exactly when the machine was in
   speech before the call. *)
C25_SingleFrameIffInSpeech ==
    pc = "api" =>
        \A k \in FirstCall..Len(trace) :
            /\ TwoShapes(k)
            /\ trace[k].emit => (Len(trace[k].payload[1]) = 1 <=> InSpeechAtCall(k))

(* C25, amended: every result is (True, non-empty payload) or (False, None); a
   call made in speech that emits returns the current frame alone; a call made
   outside speech that emits returns the ring buffer, min(n, prefill_frames + 1)
   frames for the n-th call since construction or reset(), which is a single
   frame when prefill_frames = 0 or n = 1. *)
C25_ResultShapes ==
    pc = "api" =>
        \A k \in FirstCall..Len(trace) :
            /\ TwoShapes(k)
            /\ (trace[k].emit /\ InSpeechAtCall(k)) =>
                  trace[k].payload = Some(<<trace[k].frame>>)
            /\ (trace[k].emit /\ ~InSpeechAtCall(k)) =>
                  /\ trace[k].in_speech
                  /\ Len(trace[k].payload[1])
                        = Min(k - FirstCall + 1, smoothed_vad.prefill_frames + 1)
                  /\ trace[k].payload[1][Len(trace[k].payload[1])] = trace[k].frame

(* an onset after earlier calls whose payload is the current frame alone *)
C25_Witness ==
    /\ pc = "api" /\ n_calls >= 2
    /\ trace[Len(trace)].emit /\ ~InSpeechAtCall(Len(trace))
    /\ Len(trace[Len(trace)].payload[1]) = 1
    /\ smoothed_vad.prefill_frames = 0

(* the k-th frame starts / follows a maximal run of consecutive emitting frames *)
RunStartsAt(k) == trace[k].emit /\ (k = 1 \/ ~trace[k - 1].emit)
RunEndedBefore(k) == ~trace[k].emit /\ k > 1 /\ trace[k - 1].emit
NumEmitRuns == Cardinality({k \in 1..Len(trace) : RunStartsAt(k)})
(* the samples of the payload the k-th call returned *)
PayloadLen(k) == IF trace[k].payload = None THEN 0 ELSE ArrayLen(trace[k].payload[1])
(* the samples of the payloads returned by the calls 1..k, given that the cursor
   recorded with every call is the sum for the calls before it *)
EmittedThrough(k) == IF k = 0 THEN 0 ELSE trace[k].cursor + PayloadLen(k)

(* C26: segment accounting. A segment is open exactly while a run of emitting
   frames goes on; it is closed by the first non-emitting frame after the run, or
   at the end of the stream, with end = samples emitted up to then / sample rate;
   the number of segments process records is the number of maximal runs of
   consecutive emitting frames. *)
C26_SegmentAccounting ==
    (pc \in {"loop", "done"} /\ vad_enabled) =>
        /\ \A k \in 1..Len(trace) :
              /\ trace[k].cursor = EmittedThrough(k - 1)
              /\ trace[k].opened <=> RunStartsAt(k)
              /\ trace[k].closed <=> RunEndedBefore(k)
              /\ trace[k].start # None <=> trace[k].emit
              /\ trace[k].closed =>
                    /\ trace[k].nsegs = trace[k - 1].nsegs + 1
                    /\ RatEq(vad_segments[trace[k].nsegs].end,
                             Rat(EmittedThrough(k), target_sr))
              /\ ~trace[k].closed => trace[k].nsegs = (IF k = 1 THEN 0 ELSE trace[k - 1].nsegs)
        /\ pc = "loop" =>
              Len(vad_segments) = Cardinality({k \in 1..Len(trace) : RunEndedBefore(k)})
        /\ pc = "done" =>
              /\ Len(vad_segments) = NumEmitRuns
              /\ output[1].num_segments = NumEmitRuns
              /\ Len(Reported) = NumEmitRuns
              /\ (trace # <<>> /\ trace[Len(trace)].emit) =>
                    RatEq(vad_segments[Len(vad_segments)].end,
                          Rat(EmittedThrough(Len(trace)), target_sr))

(* two runs of emitting frames, the first closed by a non-emitting frame and the
   second by the end of the stream, and a non-emitting frame before the first *)
C26_Witness ==
    /\ pc = "done" /\ vad_enabled /\ NumEmitRuns = 2 /\ Len(vad_segments) = 2
    /\ ~trace[1].emit
    /\ trace[Len(trace)].emit
    /\ \E k \in 1..Len(trace) : trace[k].closed
    /\ RatLess(vad_segments[1].end, vad_segments[2].end)

(* C27: framing. With VAD enabled process feeds the state machine the frames
   0, 1, 2, ... of the clip in stream order, each of exactly frame_samples
   samples, the short last one padded; no call is refused for its length, so
   process never ends in the classifier's frame-length error; when the loop is
   over it has fed exactly ceil(len(audio) / frame_samples) frames, none for an
   empty clip. *)
C27_Framing ==
    (InProcess /\ vad_enabled) =>
        /\ pc # "error"
        /\ result # None => ~result[1].raised
        /\ \A k \in 1..Len(trace) :
              /\ trace[k].frame.idx = k - 1
              /\ trace[k].frame.len = frame_samples
              /\ ~Raised(k)
        /\ i = Len(trace) * frame_samples
        /\ Len(trace) <= ClipFrames(audio_len)
        /\ pc = "done" => Len(trace) = ClipFrames(audio_len)
        /\ audio_len = 0 => trace = <<>>

(* a finished clip whose last frame was one sample short *)
C27_Witness ==
    /\ pc = "done" /\ vad_enabled
    /\ audio_len % frame_samples # 0
    /\ Len(trace) >= 2 /\ Len(trace) * frame_samples = audio_len + 1
    /\ trace[Len(trace)].frame.len = frame_samples
    /\ Slice(audio_len, i - frame_samples).len < frame_samples

(* no call of the run emitted *)
NeverEmits == \A k \in 1..Len(trace) : ~trace[k].emit

(* C28: pass-through. When process ends with VAD disabled, or with VAD enabled
   and no call having emitted, the audio handed to the later stages is the
   original audio, all len(audio) samples of it, the reported segment list is
   empty and num_segments is 0; the run ends normally. With VAD disabled no
   frame is given to the state machine at all. *)
C28_PassThrough ==
    /\ (InProcess /\ (~vad_enabled \/ NeverEmits)) => pc # "error"
    /\ (InProcess /\ ~vad_enabled) => trace = <<>> /\ processed_audio = <<>>
    /\ (pc = "done" /\ (~vad_enabled \/ NeverEmits)) =>
          /\ output # None
          /\ output[1].source = "original"
          /\ output[1].len = audio_len
          /\ output[1].vad_segments = <<>>
          /\ output[1].num_segments = 0
    /\ (pc = "done" /\ vad_enabled /\ ~NeverEmits) => output[1].source = "filtered"

(* VAD enabled, voiced frames in the clip, and still nothing emitted *)
C28_Witness ==
    /\ pc = "done" /\ vad_enabled /\ NeverEmits
    /\ Len(trace) >= 3 /\ NumVoiced >= 2
    /\ output[1].source = "original" /\ output[1].len = audio_len
    /\ output[1].num_segments = 0

(* bin k lies in [freq_min, freq_max) *)
InRange(k) ==
    /\ k * BinSpacing.num >= freq_min * BinSpacing.den
    /\ k * BinSpacing.num < freq_max * BinSpacing.den
(* the bands of n that bin k belongs to *)
BandsOf(k, n) == {b \in 0..(n - 1) : InBand(k, b, n)}
BandWidth(b, n) == BandEdge(b + 1, n) - BandEdge(b, n)

(* C29: the band edges partition the range. For the num_buckets of the call,
   the first edge is 80 Hz and the last 4000 Hz, the edges and the band widths
   are strictly increasing, every frequency bin in [80, 4000) belongs to exactly
   one band and a bin outside that range to none. *)
C29_BandPartition ==
    spectrum # None =>
        LET n == spectrum[1].num_buckets
            scale == n * n * BinSpacing.den
        IN  /\ BandEdge(0, n) = freq_min * scale
            /\ BandEdge(n, n) = freq_max * scale
            /\ \A b \in 0..(n - 1) : BandEdge(b, n) < BandEdge(b + 1, n)
            /\ \A b \in 0..(n - 2) : BandWidth(b, n) < BandWidth(b + 1, n)
            /\ \A k \in FreqBins :
                  /\ InRange(k) => Cardinality(BandsOf(k, n)) = 1
                  /\ ~InRange(k) => BandsOf(k, n) = {}

(* a returned default profile; the bin at 4000 Hz, the bins below 80 Hz and
   the bins of the first and the last band are all there *)
C29_Witness ==
    /\ spectrum # None /\ pc = "returned" /\ spectrum[1].num_buckets = 16
    /\ \E k \in FreqBins : k * BinSpacing.num = freq_max * BinSpacing.den
    /\ \E k \in FreqBins : k > 0 /\ k * BinSpacing.num < freq_min * BinSpacing.den
    /\ \E k \in FreqBins : BandsOf(k, 16) = {0}
    /\ \E k \in FreqBins : BandsOf(k, 16) = {15}

(* C30: no input frame is emitted twice. The concatenated output of the state
   machine is a subsequence of the input frame sequence: its frames are in
   stream order, each at most once, also when an onset is confirmed shortly
   after the hangover tail of the region before it. *)
C30_NoFrameTwice ==
    (InProcess /\ vad_enabled) =>
        LET out == Concatenate(processed_audio)
        IN  \A j \in 1..(Len(out) - 1) : out[j].idx < out[j + 1].idx

(* C31: counter/mode coupling. In every state of a SmoothedVAD, after
   construction, reset() and every call: in speech onset_counter is 0, outside
   speech hangover_counter is 0 and onset_counter is less than onset_frames. *)
C31_CounterModeCoupling ==
    /\ smoothed_vad.in_speech => smoothed_vad.onset_counter = 0
    /\ ~smoothed_vad.in_speech =>
          /\ smoothed_vad.hangover_counter = 0
          /\ smoothed_vad.onset_counter < smoothed_vad.onset_frames

(* outside speech again after a region that ended, one voiced frame short of a
   new onset *)
C31_Witness ==
    /\ pc = "api" /\ ~smoothed_vad.in_speech
    /\ smoothed_vad.hangover_frames >= 1
    /\ smoothed_vad.onset_counter = smoothed_vad.onset_frames - 1
    /\ smoothed_vad.onset_counter >= 1
    /\ \E k \in FirstCall..Len(trace) : trace[k].in_speech

(* the last call made went on with the region of call b: emitted alone, in
   speech, the segment of b still the open one *)
LastGoesOnFrom(b) ==
    LET e == trace[Len(trace)]
    IN  /\ e.in_speech /\ e.emit /\ e.payload = Some(<<e.frame>>)
        /\ ~e.closed /\ ~e.opened
        /\ e.nsegs = trace[b].nsegs /\ e.start = trace[b].start /\ e.start # None

(* C32: hangover boundary. After a voiced run of at least onset_frames frames
   ending at b, up to hangover_frames unvoiced frames in a row leave the region
   open, and a voiced run that follows exactly hangover_frames unvoiced frames
   belongs to the same segment, so that process records one segment for the two
   runs; the unvoiced frame number hangover_frames + 1 is the first that ends
   the region. The histories are taken up to the last call made. *)
C32_HangoverBoundary ==
    (pc \in {"loop", "done"} /\ vad_enabled) =>
        LET last == Len(trace)
            hf   == smoothed_vad.hangover_frames
        IN  \A b \in 1..(last - 1) :
                OnsetRunEndsAt(b) =>
                    /\ (last - b <= hf /\ AllUnvoiced(b + 1, last)) =>
                          /\ LastGoesOnFrom(b)
                          /\ smoothed_vad.hangover_counter = hf - (last - b)
                    /\ (last - b > hf /\ AllUnvoiced(b + 1, b + hf)
                          /\ AllVoiced(b + hf + 1, last)) =>
                          /\ LastGoesOnFrom(b)
                          /\ smoothed_vad.hangover_counter = hf
                          /\ pc = "done" => Len(vad_segments) = trace[b].nsegs + 1
                    /\ (last - b = hf + 1 /\ AllUnvoiced(b + 1, last)) =>
                          /\ ~trace[last].in_speech /\ ~trace[last].emit
                          /\ trace[last].closed /\ trace[last].start = None
                          /\ trace[last].nsegs = trace[b].nsegs + 1

(* a clip of two voiced runs with exactly hangover_frames unvoiced frames
   between them, reported as one segment *)
C32_Witness ==
    /\ pc = "done" /\ vad_enabled /\ smoothed_vad.hangover_frames >= 2
    /\ Len(vad_segments) = 1 /\ output[1].num_segments = 1
    /\ \E b \in 1..Len(trace) :
          /\ OnsetRunEndsAt(b)
          /\ b + smoothed_vad.hangover_frames < Len(trace)
          /\ AllUnvoiced(b + 1, b + smoothed_vad.hangover_frames)
          /\ AllVoiced(b + smoothed_vad.hangover_frames + 1, Len(trace))
          /\ trace[b + smoothed_vad.hangover_frames].emit

(* call c ended a speech region: in speech before it, not after it *)
SpeechEndsAt(c) == c >= 2 /\ trace[c - 1].in_speech /\ ~trace[c].in_speech

(* C33: the debounce applies anew after every speech end. For a frame processed
   outside speech after a region has ended: as long as the voiced run it belongs
   to is shorter than onset_frames it emits nothing, opens no segment and leaves
   in_speech false, with onset_counter the length of the run (0 for an unvoiced
   frame); the frame that makes the run onset_frames long is the first of the
   run that emits, and it opens a new segment. The histories are taken up to the
   last call made. *)
C33_DebounceAfterEnd ==
    (pc \in {"loop", "done"} /\ vad_enabled) =>
        LET last == Len(trace)
            run  == TrailingVoiced(last)
        IN  (/\ last >= 1 /\ ~InSpeechBefore(last)
             /\ \E c \in 2..(last - 1) : SpeechEndsAt(c)) =>
                /\ run <= smoothed_vad.onset_frames
                /\ run < smoothed_vad.onset_frames =>
                      /\ ~trace[last].emit /\ trace[last].payload = None
                      /\ ~trace[last].opened /\ trace[last].start = None
                      /\ ~trace[last].in_speech
                      /\ trace[last].nsegs = trace[last - 1].nsegs
                      /\ smoothed_vad.onset_counter = run
                /\ run = smoothed_vad.onset_frames =>
                      /\ trace[last].emit /\ trace[last].opened /\ trace[last].in_speech
                      /\ \A k \in (last - run + 1)..(last - 1) :
                            ~trace[k].emit /\ ~trace[k].in_speech

(* after a region has ended: a voiced frame alone that emits nothing, then a
   run that emits at its onset_frames-th frame, the last of the clip *)
C33_Witness ==
    /\ pc = "done" /\ vad_enabled /\ smoothed_vad.onset_frames = 2
    /\ Len(trace) >= 7 /\ Len(vad_segments) = 2
    /\ trace[Len(trace)].emit /\ trace[Len(trace)].opened
    /\ trace[Len(trace) - 1].voiced /\ ~trace[Len(trace) - 1].emit
    /\ ~trace[Len(trace) - 2].voiced
    /\ \E c \in 2..(Len(trace) - 4) :
          /\ SpeechEndsAt(c)
          /\ \E k \in (c + 1)..(Len(trace) - 3) :
                trace[k].voiced /\ ~trace[k].emit /\ ~trace[k + 1].voiced

(* C34: at the end of process with VAD enabled every recorded segment has
   start < end, the first one starts at 0, and when anything was emitted there
   is a segment and the end of the last one is the length of the filtered audio,
   before the padding of a short clip, over the sample rate. *)
C34_SegmentBounds ==
    (pc = "done" /\ vad_enabled) =>
        /\ \A k \in 1..Len(Reported) : RatLess(Reported[k].start, Reported[k].end)
        /\ Reported # <<>> => RatEq(Reported[1].start, Rat(0, 1))
        /\ processed_audio # <<>> =>
              /\ Reported # <<>>
              /\ output[1].source = "filtered"
              /\ RatEq(Reported[Len(Reported)].end, Rat(output[1].len, target_sr))
              /\ output[1].len = OutputCursor(processed_audio)
        /\ processed_audio = <<>> => Reported = <<>>

(* two segments, the last one closed before the end of the clip *)
C34_Witness ==
    /\ pc = "done" /\ vad_enabled /\ Len(Reported) = 2
    /\ ~trace[Len(trace)].emit /\ ~trace[Len(trace) - 1].emit
    /\ Reported[1].start.num = 0
    /\ RatLess(Reported[2].start, Reported[2].end)
    /\ Reported[2].end.num = output[1].len
    /\ output[1].len < output[1].padded_len

(* C35: short-clip padding. The audio process writes has at least target_sr
   samples: an audio of fewer than target_sr samples, the empty one included, is
   extended at its end to exactly 1.25 * target_sr samples, a longer one is
   written as it is; the samples before the padding are those selected before,
   and the segment list returned is the one recorded in the loop. *)
C35_ShortClipPadding ==
    pc = "done" =>
        LET o == output[1]
        IN  /\ o.padded_len >= target_sr
            /\ o.padded_len >= o.len
            /\ o.len < target_sr => o.padded_len = (target_sr * 5) \div 4
            /\ o.len >= target_sr => o.padded_len = o.len
            /\ o.len = (IF vad_enabled /\ processed_audio # <<>>
                        THEN OutputCursor(processed_audio) ELSE audio_len)
            /\ o.vad_segments = (IF vad_enabled THEN vad_segments ELSE <<>>)
            /\ o.num_segments = Len(o.vad_segments)
            /\ vad_enabled =>
                  \A k \in 1..Len(o.vad_segments) :
                      o.vad_segments[k].end.num <= o.len

(* a filtered clip with a segment, shorter than a second, padded *)
C35_Witness ==
    /\ pc = "done" /\ vad_enabled /\ output[1].source = "filtered"
    /\ output[1].num_segments >= 1
    /\ output[1].len > 0 /\ output[1].len < target_sr
    /\ output[1].padded_len = 20000

(* --------------- the backend and the event stream: shared --------------- *)
(* the preprocessor is not running while the backend is looked at *)
PreprocessorVars ==
    <<silero_vad, smoothed_vad, vad_enabled, audio_len, i, segment_start,
      processed_audio, vad_segments, output, pc, result, n_calls, trace,
      last_p, max_p, runs, spectrum>>

PreprocessorIdle ==
    /\ silero_vad = [threshold |-> vad_threshold]
    /\ smoothed_vad = NewSmoothedVAD(0, 0, 1)
    /\ vad_enabled = TRUE
    /\ audio_len = 0
    /\ i = 0
    /\ segment_start = None
    /\ processed_audio = <<>>
    /\ vad_segments = <<>>
    /\ output = None
    /\ pc = "idle"
    /\ result = None
    /\ n_calls = 0
    /\ trace = <<>>
    /\ last_p = None
    /\ max_p = None
    /\ runs = <<>>
    /\ spectrum = None

(* ------------------ backend: the pyannote.ai webhook -------------------- *)
(* settings.webhook_secret: the default "" or a configured secret *)
Secrets == {"", "k1"}
(* keys a sender can sign with: the configured secret, or one of its own *)
Keys == {"k1", "k2"}
PyannoteIds == {"pa1", "pa2"}
WebhookStatuses == {"running", "succeeded", "failed"}

(* a request body: one that does not parse as a WebhookPayload, or a payload
   with jobId, status and an optional output *)
GarbagePayload == [parses |-> FALSE, jobId |-> "", status |-> "", output |-> None]
WebhookPayloads ==
    {GarbagePayload} \cup
    [parses : {TRUE}, jobId : PyannoteIds \cup {"pa9"},
     status : WebhookStatuses, output : {None, Some("diarization")}]

(* hmac.new(secret, payload, sha256).hexdigest(): a digest is determined by the
   key and the message, and two digests are equal only for the same pair *)
HmacSha256(secret, payload) == [key |-> secret, msg |-> payload]
SignatureOf(secret, payload) == <<"sha256=", HmacSha256(secret, payload)>>

(* the X-Signature-256 header: None when absent, else the string sent, where
   <<>> is the empty string *)
Signatures(payload) ==
    {None, Some(<<>>)} \cup
    {Some(SignatureOf(k, pl)) : k \in Keys, pl \in {payload, GarbagePayload}}

(* verify_webhook_signature; comparing with a missing header raises inside the
   try block and gives False *)
verify_webhook_signature(payload, signature, secret) ==
    IF secret = "" THEN TRUE
    ELSE signature # None /\ signature[1] = SignatureOf(secret, payload)

(* line 61: `settings.webhook_secret and x_signature_256`, the truth values of
   two strings *)
SignatureIsChecked(secret, signature) ==
    secret # "" /\ signature # None /\ signature[1] # <<>>

(* lines 84-89: the first job of active_jobs with the payload's jobId, 0 if
   there is none *)
FindProcessingJob(jobs, jobId) ==
    LET hits == {k \in 1..Len(jobs) : jobs[k].pyannote_job_id = jobId}
    IN  IF hits = {} THEN 0 ELSE CHOOSE k \in hits : \A h \in hits : k <= h

(* lines 91-96 *)
UpdateProcessingJob(job, payload) ==
    [job EXCEPT !.status = payload.status,
                !.result = IF payload.output # None THEN payload.output ELSE @]

(* lines 99-107: the temporary file of a finished job is removed *)
FilesAfter(files, job, payload) ==
    IF payload.status \in {"succeeded", "failed", "canceled"} /\ job.file_path # None
    THEN files \ {job.file_path[1]}
    ELSE files

NewProcessingJob(id, pyannote_job_id, file) ==
    [id |-> id, pyannote_job_id |-> pyannote_job_id, status |-> "pending",
     file_path |-> Some(file), result |-> None]

(* the jobs of active_jobs in the order they were inserted: one that pyannote.ai
   has accepted, and a second one that is accepted or still has the empty
   pyannote_job_id it was created with *)
InitWebhook ==
    /\ PreprocessorIdle
    /\ poll = None /\ stream = None
    /\ \E second \in {"", "pa2"} :
          active_jobs = <<NewProcessingJob("j1", "pa1", "f1"),
                          NewProcessingJob("j2", second, "f2")>>
    /\ \E secret \in Secrets :
          webhook = Some([secret |-> secret, request |-> None, response |-> 0,
                          files |-> {"f1", "f2"}])

(* the response code of receive_pyannote_webhook: 401 at lines 61-67, 400 at
   lines 69-77, else 200 *)
WebhookResponse(secret, payload, signature) ==
    IF SignatureIsChecked(secret, signature)
         /\ ~verify_webhook_signature(payload, signature, secret)
    THEN 401
    ELSE IF ~payload.parses THEN 400
    ELSE 200

(* receive_pyannote_webhook, one request from its body to its response *)
receive_pyannote_webhook(payload, x_signature_256) ==
    /\ webhook # None
    /\ LET w == webhook[1]
           code == WebhookResponse(w.secret, payload, x_signature_256)
           k == FindProcessingJob(active_jobs, payload.jobId)
           hit == code = 200 /\ k # 0
       IN  /\ active_jobs' =
                  IF hit
                  THEN [active_jobs EXCEPT ![k] = UpdateProcessingJob(@, payload)]
                  ELSE active_jobs
           /\ webhook' = Some([w EXCEPT
                  !.request = Some([payload |-> payload,
                                    signature |-> x_signature_256]),
                  !.response = code,
                  !.files = IF hit THEN FilesAfter(@, active_jobs[k], payload)
                            ELSE @])
    /\ UNCHANGED <<poll, stream>>
    /\ UNCHANGED PreprocessorVars

ReceiveWebhook ==
    \E payload \in WebhookPayloads : \E signature \in Signatures(payload) :
        receive_pyannote_webhook(payload, signature)

NextWebhook == ReceiveWebhook

SpecWebhook == InitWebhook /\ [][NextWebhook]_vars

(* the request of this step carries no signature that verifies against its
   payload under the configured secret *)
UnverifiedRequest ==
    /\ webhook # None /\ webhook' # None
    /\ <<webhook, active_jobs>>' # <<webhook, active_jobs>>
    /\ webhook[1].secret # ""
    /\ LET r == webhook'[1].request[1]
       IN  \/ r.signature = None
           \/ r.signature[1] # SignatureOf(webhook[1].secret, r.payload)

(* C36: webhook authentication. With a webhook secret configured, a request
   whose signature does not verify against its payload, a wrong signature or no
   X-Signature-256 header at all, is answered with 401 and changes the status
   and the result of no job of active_jobs. *)
C36_UnverifiedRejected ==
    [][UnverifiedRequest =>
          /\ webhook'[1].response = 401
          /\ active_jobs' = active_jobs]_vars

(* what the code does hold to: a request with a non-empty signature header that
   does not verify is answered with 401 and changes no job *)
WrongSignatureRequest ==
    /\ UnverifiedRequest
    /\ webhook'[1].request[1].signature \notin {None, Some(<<>>)}

WrongSignatureRejected ==
    [][WrongSignatureRequest =>
          /\ webhook'[1].response = 401
          /\ active_jobs' = active_jobs]_vars

(* ---------------- backend: polling a job until it is done --------------- *)
(* the clock is followed up to MaxClock time units *)
MaxClock == 8
PollIntervals == {1, 2}
MaxWaitTimes == {2, 4}
(* the Retry-After header of a 429 response, in time units *)
RetryAfters == {1, 3}
LongestRetryAfter == CHOOSE r \in RetryAfters : \A q \in RetryAfters : q <= r
TerminalStatuses == {"succeeded", "failed", "canceled"}
PendingStatuses == {"pending", "running"}

(* wait_for_completion is called: start_time is taken, nothing has been polled *)
InitPolling ==
    /\ PreprocessorIdle
    /\ active_jobs = <<>> /\ webhook = None /\ stream = None
    /\ \E pi \in PollIntervals : \E mw \in MaxWaitTimes :
          poll = Some([pc |-> "polling", elapsed |-> 0,
                       poll_interval |-> pi, max_wait_time |-> mw,
                       last |-> None, rate_limited |-> FALSE])

Polling == poll # None /\ poll[1].pc = "polling" /\ poll[1].elapsed <= MaxClock

PollingVarsUnchanged ==
    /\ UNCHANGED <<active_jobs, webhook, stream>>
    /\ UNCHANGED PreprocessorVars

(* lines 252-255: get_job_status answers with a terminal status *)
PollTerminal(status) ==
    /\ Polling
    /\ poll' = Some([poll[1] EXCEPT !.pc = "returned", !.last = Some(status)])
    /\ PollingVarsUnchanged

(* line 258: the test that ends the wait *)
TimedOut(elapsed_time, max_wait_time) == elapsed_time > max_wait_time

(* lines 257-265: the job is not done; raise past max_wait_time, else sleep
   poll_interval and poll again *)
PollPending(status) ==
    /\ Polling
    /\ LET p == poll[1]
       IN  poll' = Some(
              IF TimedOut(p.elapsed, p.max_wait_time)
              THEN [p EXCEPT !.pc = "raised", !.last = Some(status)]
              ELSE [p EXCEPT !.last = Some(status),
                             !.elapsed = @ + p.poll_interval])
    /\ PollingVarsUnchanged

(* lines 98-110 and 267-269: a 429 response raises RateLimitExceeded out of
   get_job_status; the handler sleeps retry_after and the loop goes on *)
RateLimitHandler(p, retry_after) ==
    [p EXCEPT !.last = Some("429"), !.rate_limited = TRUE,
              !.elapsed = @ + retry_after]

PollRateLimited(retry_after) ==
    /\ Polling
    /\ poll' = Some(RateLimitHandler(poll[1], retry_after))
    /\ PollingVarsUnchanged

(* lines 270-272: any other exception of get_job_status is raised again *)
PollError ==
    /\ Polling
    /\ poll' = Some([poll[1] EXCEPT !.pc = "raised", !.last = Some("error")])
    /\ PollingVarsUnchanged

NextPolling ==
    \/ \E status \in TerminalStatuses : PollTerminal(status)
    \/ \E status \in PendingStatuses : PollPending(status)
    \/ \E retry_after \in RetryAfters : PollRateLimited(retry_after)
    \/ PollError

SpecPolling == InitPolling /\ [][NextPolling]_vars

(* C37: polling terminates. wait_for_completion returns on a succeeded, failed
   or canceled poll and otherwise raises once max_wait_time has elapsed, also
   when polls keep answering 429: it is never about to poll again when more
   than max_wait_time, one poll_interval and the longest Retry-After have gone
   by since it was called. *)
C37_PollingTerminates ==
    (poll # None /\ poll[1].pc = "polling") =>
        poll[1].elapsed <=
            poll[1].max_wait_time + poll[1].poll_interval + LongestRetryAfter

(* what the code does hold to: as long as no poll was answered with 429 the
   wait is over within max_wait_time and one poll_interval *)
PollingBoundedWithoutRateLimit ==
    (poll # None /\ poll[1].pc = "polling" /\ ~poll[1].rate_limited) =>
        poll[1].elapsed <= poll[1].max_wait_time + poll[1].poll_interval

(* a terminal poll returns, whatever went before *)
ReturnsOnTerminal ==
    (poll # None /\ poll[1].last # None /\ poll[1].last[1] \in TerminalStatuses) =>
        poll[1].pc = "returned"

(* -------------------- api: the event stream of a job -------------------- *)
(* the job changes its state at most MaxJobChanges times while it is watched *)
MaxJobChanges == 3
FinalJobStates == {"JOB_STATE_SUCCEEDED", "JOB_STATE_FAILED", "JOB_STATE_CANCELLED"}
(* the states the progress table names, and one it does not *)
JobStates ==
    {"JOB_STATE_QUEUED", "JOB_STATE_PENDING", "JOB_STATE_RUNNING",
     "JOB_STATE_CANCELLING"} \cup FinalJobStates

(* lines 240-247: the progress table with its default; the number stands for
   the decimal string sent as data *)
ProgressOf(state) ==
    CASE state = "JOB_STATE_QUEUED" -> 5
      [] state = "JOB_STATE_PENDING" -> 10
      [] state = "JOB_STATE_RUNNING" -> 50
      [] state = "JOB_STATE_SUCCEEDED" -> 100
      [] state = "JOB_STATE_FAILED" -> 0
      [] state = "JOB_STATE_CANCELLED" -> 0
      [] OTHER -> 0

(* line 238: `current_state != last_state`, last_state None before the first
   poll *)
StateChanged(current_state, last_state) ==
    last_state = None \/ last_state[1] # current_state

(* line 256 *)
IsFinalStateWithCancelling(state) ==
    state \in FinalJobStates \cup {"JOB_STATE_CANCELLING"}
IsFinalState(state) == state \in FinalJobStates

(* the events of one turn of the loop, lines 238-261; `of` notes the polled
   state a progress event stands for, it is not sent *)
EventsOfPoll(current_state, last_state) ==
    (IF StateChanged(current_state, last_state)
     THEN <<[event |-> "progress", data |-> ProgressOf(current_state),
             of |-> current_state]>>
     ELSE <<>>)
    \o (IF IsFinalState(current_state)
        THEN <<[event |-> "complete", data |-> 0, of |-> current_state]>>
        ELSE <<>>)

ErrorEvent == [event |-> "error", data |-> 0, of |-> "exception"]

(* job_events is called for a job in any state: last_state is None, nothing is
   sent yet *)
InitEvents ==
    /\ PreprocessorIdle
    /\ active_jobs = <<>> /\ webhook = None /\ poll = None
    /\ \E state \in JobStates :
          stream = Some([pc |-> "polling", job |-> state, changes |-> 0,
                         last_state |-> None, polled |-> None, events |-> <<>>])

EventsVarsUnchanged ==
    /\ UNCHANGED <<active_jobs, webhook, poll>>
    /\ UNCHANGED PreprocessorVars

(* the platform moves the job on; a final state is kept *)
JobAdvance(state) ==
    /\ stream # None
    /\ stream[1].job \notin FinalJobStates
    /\ stream[1].changes < MaxJobChanges
    /\ state # stream[1].job
    /\ stream' = Some([stream[1] EXCEPT !.job = state, !.changes = @ + 1])
    /\ EventsVarsUnchanged

(* one turn of the loop with a poll that answers, lines 235-263 *)
PollJob ==
    /\ stream # None /\ stream[1].pc = "polling"
    /\ LET t == stream[1]
           current_state == t.job
       IN  stream' = Some([t EXCEPT
              !.polled = Some(current_state),
              !.events = @ \o EventsOfPoll(current_state, t.last_state),
              !.last_state = IF StateChanged(current_state, t.last_state)
                             THEN Some(current_state) ELSE @,
              !.pc = IF IsFinalState(current_state) THEN "ended" ELSE @])
    /\ EventsVarsUnchanged

(* lines 264-268: CustomJob.get raises; an error event is sent and the
   generator returns *)
PollFails ==
    /\ stream # None /\ stream[1].pc = "polling"
    /\ stream' = Some([stream[1] EXCEPT
           !.polled = Some("exception"),
           !.events = Append(@, ErrorEvent),
           !.pc = "ended"])
    /\ EventsVarsUnchanged

NextEvents ==
    \/ \E state \in JobStates : JobAdvance(state)
    \/ PollJob
    \/ PollFails

SpecEvents == InitEvents /\ [][NextEvents]_vars

(* the generator is resumed as long as the stream is open: a turn of the loop
   that can send something is taken at some point *)
SpecEventsFair == SpecEvents /\ WF_vars(PollJob)

(* the state the last progress event of a sequence reported, None if there is
   no progress event *)
LastReported(events) ==
    LET ks == {k \in 1..Len(events) : events[k].event = "progress"}
    IN  IF ks = {} THEN None
        ELSE Some(events[CHOOSE k \in ks : \A h \in ks : h <= k].of)

NumEvents(events, name) ==
    Cardinality({k \in 1..Len(events) : events[k].event = name})

EndsWith(name) ==
    /\ stream # None /\ stream[1].events # <<>>
    /\ stream[1].events[Len(stream[1].events)].event = name

(* a step of the generator, as opposed to one of the job *)
StreamStep ==
    /\ stream # None /\ stream' # None
    /\ <<stream[1].events, stream[1].polled, stream[1].pc>>
          # <<stream'[1].events, stream'[1].polled, stream'[1].pc>>

(* a step of the stream: what was sent before stays, and a progress event is
   among the events added exactly when the state polled is not the one
   reported last, the first poll included; it then reports that state *)
ProgressOnlyOnChange ==
    StreamStep =>
        LET old == stream[1].events
            all == stream'[1].events
            new == SubSeq(all, Len(old) + 1, Len(all))
            polled == stream'[1].polled[1]
            differs == LastReported(old) = None \/ LastReported(old)[1] # polled
        IN  /\ Len(all) >= Len(old) /\ SubSeq(all, 1, Len(old)) = old
            /\ NumEvents(new, "progress") <= 1
            /\ polled # "exception" =>
                  /\ NumEvents(new, "progress") = (IF differs THEN 1 ELSE 0)
                  /\ differs => /\ new[1].event = "progress"
                                 /\ new[1].of = polled
                                 /\ new[1].data = ProgressOf(polled)
            /\ polled = "exception" => new = <<ErrorEvent>>

(* complete is sent at most once, as the last event, after a poll that returned
   a final state; nothing follows an error event; and a stream that has ended
   ended with complete or with error *)
CompleteOnceAndLast ==
    stream # None =>
        LET t == stream[1]
            n == Len(t.events)
        IN  /\ NumEvents(t.events, "complete") <= 1
            /\ NumEvents(t.events, "error") <= 1
            /\ \A k \in 1..n :
                  t.events[k].event \in {"complete", "error"} =>
                      k = n /\ t.pc = "ended"
            /\ EndsWith("complete") =>
                  /\ t.polled # None /\ t.polled[1] \in FinalJobStates
                  /\ t.events[n].of = t.polled[1]
                  /\ t.job = t.polled[1]
            /\ t.pc = "ended" <=> (EndsWith("complete") \/ EndsWith("error"))
            /\ EndsWith("complete") => EndsWith("error") = FALSE

JobIsFinal == stream # None /\ stream[1].job \in FinalJobStates

(* C38: job event stream. job_events sends a progress event only when the state
   polled differs from the one reported before, the first poll included; it
   sends complete exactly once and as its last event, only after a poll that
   returned SUCCEEDED, FAILED or CANCELLED; after an error event it sends
   nothing more; and once the job is in a final state a stream whose polls do
   not fail ends with complete. *)
C38_JobEventStream ==
    /\ [][ProgressOnlyOnChange]_vars
    /\ []CompleteOnceAndLast
    /\ (JobIsFinal ~> (EndsWith("complete") \/ EndsWith("error")))

(* a stream that reported three different states, polled a state twice without
   reporting it again, and ended with complete after the job succeeded *)
C38_Witness ==
    /\ stream # None /\ stream[1].pc = "ended"
    /\ EndsWith("complete")
    /\ stream[1].polled = Some("JOB_STATE_SUCCEEDED")
    /\ Len(stream[1].events) = 4
    /\ stream[1].events[1].of = "JOB_STATE_QUEUED"
    /\ stream[1].events[2].of = "JOB_STATE_RUNNING"
    /\ stream[1].events[3].data = 100
    /\ stream[1].changes = 3

====
